---- MODULE Spec2Model ----
(***************************************************************************)
(* State-machine model of the client-side stores of the data-fabric admin  *)
(* console: the datasource store (frontend/src/router.ts, lines 39-193)    *)
(* and the query store (frontend/src/stores/query.ts), together with the   *)
(* HTTP requests they have in flight.                                      *)
(*                                                                         *)
(* JavaScript runs the stores on one thread: the code of an action between *)
(* two awaits is one atomic step.  An action is therefore split into its   *)
(* call step (everything up to the first await, request sent) and its      *)
(* continuation (everything after the await), which runs when the response *)
(* of the request is delivered.  Between the two the server handles the    *)
(* request.  Responses of different requests may be delivered in any order.*)
(***************************************************************************)
EXTENDS Integers, Sequences, FiniteSets, TLC

VARIABLES
    \* ---- datasource store (router.ts 46-54)
    datasources, datasourceTypes, selectedDatasource, tables, selectedTable,
    tableSchema, tableData, dsLoading, dsError,
    \* ---- query store (query.ts 8-16)
    currentQuery, queryResult, queryHistory, models, jobs, knowledgeBases,
    status, qLoading, qError,
    \* ---- view state: the refreshing flag of the mounted view
    \*      (MindsDBObjects.vue 13, part_002 15)
    refreshing,
    \* ---- view state of the connection modal (part_003 17-22)
    modal,
    \* ---- view state of the materialized-table form (MaterializedTables.vue 16-25)
    form,
    \* ---- the callbacks handed to setTimeout that have not run, oldest first
    timers,
    \* ---- the network and the server behind it
    reqs,        \* the HTTP requests in flight
    selCalls,    \* the Promise.all of each selectTable call that has not settled
    srvSources,  \* the server's list of data sources
    nextId,      \* number of the next store-action call
    \* ---- observation (history variables, read by no action's guard)
    obs

dsVars  == <<datasources, datasourceTypes, selectedDatasource, tables,
             selectedTable, tableSchema, tableData, dsLoading, dsError>>
qVars   == <<currentQuery, queryResult, queryHistory, models, jobs,
             knowledgeBases, status, qLoading, qError>>
netVars == <<reqs, selCalls, srvSources, nextId>>
viewVars == <<modal, form, timers>>
vars    == <<dsVars, qVars, refreshing, viewVars, netVars, obs>>

----------------------------------------------------------------------------
\* Bounds of the model.

\* Store-action calls made in one run.
MaxCalls == 3
\* Store-action calls whose requests are in flight at the same time.
MaxInFlight == 2
\* executeQuery calls made in one run of the history specification.
MaxQueries == 12

----------------------------------------------------------------------------
\* Values.

\* null / undefined of an object-valued ref, and a present object.
Null == <<>>
Some(v) == <<v>>
\* null / undefined of a string-valued ref or field.
NoStr == "<null>"

\* JavaScript truthiness of a string-or-null value, and `a || b` on such values.
Falsy(s) == s = NoStr \/ s = ""
OrElse(a, b) == IF Falsy(a) THEN b ELSE a

Names == {"a", "b"}
TableNames == {"t1", "t2"}

\* A DataSource entity (types/index.ts 17-21).
DataSource(n) == [name |-> n, engine |-> "mysql"]

\* The failures a request can end with, as the stores read them:
\* e.response?.data?.detail and e.message.
\* A response with an error status whose body carries a detail.
Rejection == [detail |-> "detail", message |-> "status 400"]
\* Failures without a response: with and without a message.
TransportFailures ==
    { [detail |-> NoStr, message |-> "Network Error"],
      [detail |-> NoStr, message |-> ""] }
NoFailure == [detail |-> NoStr, message |-> NoStr]

NamesOf(list) == { list[i].name : i \in 1..Len(list) }

\* datasources.filter(ds => ds.name !== name)   (router.ts 105)
WithoutName(list, n) == SelectSeq(list, LAMBDA ds : ds.name # n)

----------------------------------------------------------------------------
\* The server, as the REST contract describes it.

\* The catalog of data-source types served by GET /datasources/types.
TypeCatalog ==
    << [type |-> "mysql", display_name |-> "MySQL", icon |-> "mysql",
        fields |-> << [name |-> "host", label |-> "Host", type |-> "text",
                       required |-> TRUE] >>],
       [type |-> "postgres", display_name |-> "PostgreSQL", icon |-> "postgres",
        fields |-> << [name |-> "host", label |-> "Host", type |-> "text",
                       required |-> TRUE],
                      [name |-> "port", label |-> "Port", type |-> "number",
                       required |-> FALSE, default |-> "5432"] >>] >>

\* The tables of a registered source.
ServerTables(n) == IF n = "a" THEN <<"t1", "t2">> ELSE <<"t2">>

\* GET /datasources/{name}/tables/{table}/schema.  src and call are history
\* fields: the source the schema was read from and the call that asked.
ServerSchema(n, t, c) ==
    [table |-> t, columns |-> << [name |-> "id", type |-> "int"],
                                 [name |-> IF t = "t1" THEN "amount" ELSE "total",
                                  type |-> "int"] >>,
     src |-> n, call |-> c]

\* GET /datasources/{name}/tables/{table}/sample?limit=N.  src, table and call
\* are history fields.
ServerSample(n, t, limit, c) ==
    [columns |-> <<"id">>, data |-> << <<1>> >>, total_rows |-> 1,
     limit |-> limit, src |-> n, table |-> t, call |-> c]

\* The states the server's list of sources can be in when the console starts.
InitialServerLists ==
    { <<>>, <<DataSource("a")>>, <<DataSource("a"), DataSource("b")>> }

----------------------------------------------------------------------------
\* Requests.

\* A request just sent by call c.  data: the JSON body of a POST that carries
\* an object.  joined: the request is one of those a view's refresh awaits
\* together.
Request(c, kind, ds, table) ==
    [call |-> c, kind |-> kind, ds |-> ds, table |-> table,
     limit |-> 0, body |-> NoStr, data |-> Null, joined |-> FALSE,
     st |-> "sent", fail |-> NoFailure, resp |-> <<>>]

Answered(r, resp) == [r EXCEPT !.st = "ok", !.resp = resp]
Failed(r, f)      == [r EXCEPT !.st = "fail", !.fail = f]

CallsInFlight == { r.call : r \in reqs }

\* A store action may be called (bound of the model).
CanCall == nextId <= MaxCalls /\ Cardinality(CallsInFlight) < MaxInFlight

\* Every request of a call goes out twice.
SendTwice(rs) == /\ reqs' = reqs \cup rs \cup { [x EXCEPT !.joined = ~x.joined] : x \in rs }
                 /\ nextId' = nextId + 1

\* The requests of one call go out, under the next call number.
Send(rs) == /\ reqs' = reqs \cup rs
            /\ nextId' = nextId + 1

\* The server handles request r: the answer it gives and what becomes of its
\* list of sources.
ServerHandle(r) ==
    /\ r \in reqs /\ r.st = "sent"
    /\ LET known == r.ds \in NamesOf(srvSources)
           reply(x) == reqs' = (reqs \ {r}) \cup {x}
           reject == reply(Failed(r, Rejection))
       IN  CASE r.kind = "types" ->
                  reply(Answered(r, TypeCatalog)) /\ UNCHANGED srvSources
             [] r.kind = "list" ->
                  reply(Answered(r, srvSources)) /\ UNCHANGED srvSources
             [] r.kind = "create" ->
                  IF known THEN reject /\ UNCHANGED srvSources
                  ELSE /\ reply(Answered(r, <<DataSource(r.ds)>>))
                       /\ srvSources' = Append(srvSources, DataSource(r.ds))
             [] r.kind = "delete" ->
                  IF ~known THEN reject /\ UNCHANGED srvSources
                  ELSE /\ reply(Answered(r, <<>>))
                       /\ srvSources' = WithoutName(srvSources, r.ds)
             [] r.kind = "tables" ->
                  /\ IF known THEN reply(Answered(r, ServerTables(r.ds))) ELSE reject
                  /\ UNCHANGED srvSources
             [] r.kind \in {"schema", "columns"} ->
                  /\ IF known THEN reply(Answered(r, <<ServerSchema(r.ds, r.table, r.call)>>))
                              ELSE reject
                  /\ UNCHANGED srvSources
             [] r.kind = "sample" ->
                  /\ IF known
                       THEN reply(Answered(r, <<ServerSample(r.ds, r.table, r.limit, r.call)>>))
                       ELSE reject
                  /\ UNCHANGED srvSources
    /\ UNCHANGED <<dsVars, qVars, refreshing, viewVars, selCalls, nextId, obs>>

\* What can reach the client next: the answer to a request the server has
\* handled, or the failure of a request that gets no answer.
Outcomes ==
    { r \in reqs : r.st # "sent" }
    \cup { Failed(r, f) : r \in { x \in reqs : x.st = "sent" }, f \in TransportFailures }

\* The request with outcome r is no longer in flight.
Settle(r) == reqs' = { x \in reqs : x.call # r.call \/ x.kind # r.kind }

\* The Promise.all of a view's refresh (part_002 19-25, MindsDBObjects.vue
\* 17-22): when the last of the fetches it awaits has returned, refresh resumes
\* and resets its flag in the finally block.  A fetch called on its own is
\* joined by nothing.
\* RefreshingAfter as it would be were the flag reset by the first fetch that
\* returns.
RefreshingAfterFirst(r) == IF r.joined THEN FALSE ELSE refreshing

\* The flag of the view after the fetch of request r returned.
RefreshingAfter(r) ==
    IF r.joined /\ ~(\E x \in reqs' : x.call = r.call) THEN FALSE ELSE refreshing

\* Observation of the round of a refresh: the outcomes its fetches have
\* returned with.
RoundAfter(r) == IF r.joined THEN [obs.round EXCEPT !.got = @ \cup {r}] ELSE obs.round

----------------------------------------------------------------------------
\* The datasource store (router.ts 44-193).

qnVars == <<qVars, refreshing, viewVars>>

\* Observation of the calls: no create-then-fetch scenario is tracked.
NoScenario == [stage |-> "none", name |-> NoStr, call |-> 0]

\* The operation called in this step: it runs alone if nothing else is in
\* flight, and overlaps another call otherwise.
CalledAlone(kind) ==
    [call |-> nextId, kind |-> kind,
     stage |-> IF reqs = {} THEN "alone" ELSE "overlapped"]

\* The operation called last, after response r was handled: if it is the call
\* of r and ran alone, it has succeeded once its continuation has run on a
\* success (done); any other response means it did not run alone.
ReturnedAlone(r, done) ==
    IF obs.solo.call = r.call /\ obs.solo.stage = "alone" /\ r.st = "ok"
      THEN [obs.solo EXCEPT !.stage = IF done THEN "succeeded" ELSE "alone"]
      ELSE [call |-> 0, kind |-> "none", stage |-> "overlapped"]

\* What a call returned to its caller: a value, never a rejection, since every
\* action catches what its request throws.  fail: the failure the call caught,
\* noted for checkStatus, which stores its message.
Returned(r, v) == [call |-> r.call, kind |-> r.kind, value |-> v, fail |-> NoFailure]

\* Nothing has returned since the last call.
NoReturn == [call |-> 0, kind |-> "none", value |-> "undefined", fail |-> NoFailure]

\* fetchTypes (63-70), up to the await.
FetchTypesCall ==
    /\ CanCall
    /\ Send({Request(nextId, "types", NoStr, NoStr)})
    /\ obs' = [obs EXCEPT !.cf = NoScenario, !.ret = NoReturn,
                          !.solo = CalledAlone("types")]
    /\ UNCHANGED <<dsVars, qnVars, selCalls, srvSources>>

\* fetchTypes, after the await.
FetchTypesDone(r) ==
    /\ r \in Outcomes /\ r.kind = "types"
    /\ Settle(r)
    /\ IF r.st = "ok"
         THEN datasourceTypes' = r.resp /\ UNCHANGED dsError
         ELSE /\ dsError' = OrElse(r.fail.message, "Failed to fetch data source types")
              /\ UNCHANGED datasourceTypes
    /\ obs' = [obs EXCEPT !.cf = NoScenario, !.solo = ReturnedAlone(r, TRUE),
                          !.ret = Returned(r, "undefined")]
    /\ UNCHANGED <<datasources, selectedDatasource, tables, selectedTable,
                   tableSchema, tableData, dsLoading>>
    /\ UNCHANGED <<qnVars, selCalls, srvSources, nextId>>

\* FetchedCatalog as it would be if the response were added to the catalog.
FetchedCatalogAdded(old, resp) == old \o resp

\* What the continuation of fetchDatasources makes of the catalog (77).
FetchedCatalog(old, resp) == resp

\* fetchDatasources (72-83), up to the await.
FetchDatasourcesCall ==
    /\ CanCall
    /\ dsLoading' = TRUE
    /\ dsError' = NoStr
    /\ Send({Request(nextId, "list", NoStr, NoStr)})
    /\ obs' = [obs EXCEPT !.cf = IF @.stage = "created" /\ reqs = {}
                                   THEN [@ EXCEPT !.stage = "fetching", !.call = nextId]
                                   ELSE NoScenario,
                          !.ret = NoReturn, !.solo = CalledAlone("list")]
    /\ UNCHANGED <<datasources, datasourceTypes, selectedDatasource, tables,
                   selectedTable, tableSchema, tableData>>
    /\ UNCHANGED <<qnVars, selCalls, srvSources>>

\* fetchDatasources, after the await.
FetchDatasourcesDone(r) ==
    /\ r \in Outcomes /\ r.kind = "list"
    /\ Settle(r)
    /\ IF r.st = "ok"
         THEN datasources' = FetchedCatalog(datasources, r.resp) /\ UNCHANGED dsError
         ELSE /\ dsError' = OrElse(r.fail.message, "Failed to fetch data sources")
              /\ UNCHANGED datasources
    /\ dsLoading' = FALSE
    /\ obs' = [obs EXCEPT !.cf = IF @.stage = "fetching" /\ @.call = r.call /\ r.st = "ok"
                                   THEN [@ EXCEPT !.stage = "done"]
                                   ELSE NoScenario,
                          !.solo = ReturnedAlone(r, TRUE),
                          !.ret = Returned(r, "undefined"),
                          !.round = RoundAfter(r)]
    /\ refreshing' = RefreshingAfter(r)
    /\ UNCHANGED <<datasourceTypes, selectedDatasource, tables, selectedTable,
                   tableSchema, tableData>>
    /\ UNCHANGED <<qVars, viewVars, selCalls, srvSources, nextId>>

\* detail || message || fallback, the message of the catch blocks (93, 115, 137, 159).
FailureText(f, fallback) == OrElse(f.detail, OrElse(f.message, fallback))

\* createDatasource (85-89), up to the await: what it does to the stores and
\* the network.  The body of the request is { name, engine, parameters }.
CreateDatasourceStart(n, engine, parameters) ==
    /\ CanCall
    /\ dsLoading' = TRUE
    /\ dsError' = NoStr
    /\ Send({[Request(nextId, "create", n, NoStr) EXCEPT
                 !.data = Some([name |-> n, engine |-> engine,
                                parameters |-> parameters])]})
    /\ obs' = [obs EXCEPT !.cf = IF reqs = {}
                                   THEN [stage |-> "creating", name |-> n, call |-> nextId]
                                   ELSE NoScenario,
                          !.ret = NoReturn, !.solo = CalledAlone("create")]
    /\ UNCHANGED <<datasources, datasourceTypes, selectedDatasource, tables,
                   selectedTable, tableSchema, tableData>>
    /\ UNCHANGED <<qVars, refreshing, selCalls, srvSources>>

\* createDatasource (85-89) called on its own, for a MySQL source without
\* parameters.
CreateDatasourceCall(n) == CreateDatasourceStart(n, "mysql", {}) /\ UNCHANGED viewVars

\* CreatedCatalog as it would be with a check for an entry of the same name.
CreatedCatalogChecked(old, entity) ==
    IF entity.name \in NamesOf(old) THEN old ELSE Append(old, entity)

\* datasources.value.push(newDatasource)   (90)
CreatedCatalog(old, entity) == Append(old, entity)

\* Success as it would be were true returned on both paths.
SuccessAlways(r) == "true"

\* What createDatasource and deleteDatasource return (91, 94, 113, 116).
Success(r) == IF r.st = "ok" THEN "true" ELSE "false"

\* createDatasource, after the await: what it does to the stores and the
\* network.
CreateDatasourceReturn(r) ==
    /\ r \in Outcomes /\ r.kind = "create"
    /\ Settle(r)
    /\ IF r.st = "ok"
         THEN datasources' = CreatedCatalog(datasources, r.resp[1]) /\ UNCHANGED dsError
         ELSE /\ dsError' = FailureText(r.fail, "Failed to create data source")
              /\ UNCHANGED datasources
    /\ dsLoading' = FALSE
    /\ obs' = [obs EXCEPT !.cf = IF @.stage = "creating" /\ @.call = r.call /\ r.st = "ok"
                                   THEN [@ EXCEPT !.stage = "created"]
                                   ELSE NoScenario,
                          !.solo = ReturnedAlone(r, TRUE),
                          !.ret = Returned(r, Success(r))]
    /\ UNCHANGED <<datasourceTypes, selectedDatasource, tables, selectedTable,
                   tableSchema, tableData>>
    /\ UNCHANGED <<qVars, refreshing, selCalls, srvSources, nextId>>

\* createDatasource, after the await, called with no view waiting for it.
CreateDatasourceDone(r) == CreateDatasourceReturn(r) /\ UNCHANGED viewVars

\* deleteDatasource (100-120), up to the await.
DeleteDatasourceCall(n) ==
    /\ CanCall
    /\ dsLoading' = TRUE
    /\ dsError' = NoStr
    /\ Send({Request(nextId, "delete", n, NoStr)})
    /\ obs' = [obs EXCEPT !.cf = NoScenario, !.ret = NoReturn,
                          !.solo = CalledAlone("delete")]
    /\ UNCHANGED <<datasources, datasourceTypes, selectedDatasource, tables,
                   selectedTable, tableSchema, tableData>>
    /\ UNCHANGED <<qnVars, selCalls, srvSources>>

\* deleteDatasource, after the await.
DeleteDatasourceDone(r) ==
    /\ r \in Outcomes /\ r.kind = "delete"
    /\ Settle(r)
    /\ IF r.st = "ok"
         THEN /\ datasources' = WithoutName(datasources, r.ds)
              /\ IF selectedDatasource # Null /\ selectedDatasource[1].name = r.ds
                   THEN /\ selectedDatasource' = Null
                        /\ tables' = <<>>
                        /\ selectedTable' = NoStr
                        /\ tableSchema' = Null
                        /\ tableData' = Null
                   ELSE UNCHANGED <<selectedDatasource, tables, selectedTable,
                                    tableSchema, tableData>>
              /\ UNCHANGED dsError
         ELSE /\ dsError' = FailureText(r.fail, "Failed to delete data source")
              /\ UNCHANGED <<datasources, selectedDatasource, tables, selectedTable,
                             tableSchema, tableData>>
    /\ dsLoading' = FALSE
    /\ obs' = [obs EXCEPT !.cf = NoScenario, !.solo = ReturnedAlone(r, TRUE),
                          !.ret = Returned(r, Success(r))]
    /\ UNCHANGED <<datasourceTypes, qnVars, selCalls, srvSources, nextId>>

\* selectDatasource (122-128) with the part of fetchTables (130-134) it runs
\* before the await.  The view passes an entry of the catalog (part_003 138-141).
SelectDatasource(i) ==
    /\ CanCall
    /\ i \in 1..Len(datasources)
    /\ selectedDatasource' = Some(datasources[i])
    /\ selectedTable' = NoStr
    /\ tableSchema' = Null
    /\ tableData' = Null
    /\ dsLoading' = TRUE
    /\ dsError' = NoStr
    /\ Send({Request(nextId, "tables", datasources[i].name, NoStr)})
    /\ obs' = [obs EXCEPT !.cf = NoScenario, !.ret = NoReturn,
                          !.solo = CalledAlone("select")]
    /\ UNCHANGED <<datasources, datasourceTypes, tables>>
    /\ UNCHANGED <<qnVars, selCalls, srvSources>>

\* fetchTables (130-134), up to the await: what it does to the stores and the
\* network.
FetchTablesStart(n) ==
    /\ dsLoading' = TRUE
    /\ dsError' = NoStr
    /\ Send({Request(nextId, "tables", n, NoStr)})
    /\ obs' = [obs EXCEPT !.cf = NoScenario, !.ret = NoReturn,
                          !.solo = CalledAlone("tables")]
    /\ UNCHANGED <<datasources, datasourceTypes, selectedDatasource, tables,
                   selectedTable, tableSchema, tableData>>
    /\ UNCHANGED <<qVars, refreshing, selCalls, srvSources>>

\* fetchTables (130-142) called on its own, up to the await.
FetchTablesCall(n) == CanCall /\ FetchTablesStart(n) /\ UNCHANGED viewVars

\* TablesAfter as it would be were the catch block to leave the list alone.
TablesAfterKept(old, r) == IF r.st = "ok" THEN r.resp ELSE old

\* The table list after fetchTables returned (135, 138).
TablesAfter(old, r) == IF r.st = "ok" THEN r.resp ELSE <<>>

\* FetchTablesReturn as it would be were the answer for a source that is no
\* longer the selected one dropped.
FetchTablesReturnSelected(r) ==
    /\ r \in Outcomes /\ r.kind = "tables"
    /\ Settle(r)
    /\ tables' = IF selectedDatasource # Null /\ selectedDatasource[1].name # r.ds
                   THEN tables ELSE TablesAfter(tables, r)
    /\ IF r.st = "ok"
         THEN UNCHANGED dsError
         ELSE dsError' = FailureText(r.fail, "Failed to fetch tables")
    /\ dsLoading' = FALSE
    /\ obs' = [obs EXCEPT !.cf = NoScenario, !.solo = ReturnedAlone(r, TRUE),
                          !.ret = Returned(r, "undefined")]
    /\ UNCHANGED <<datasources, datasourceTypes, selectedDatasource, selectedTable,
                   tableSchema, tableData>>
    /\ UNCHANGED <<qVars, refreshing, selCalls, srvSources, nextId>>

\* fetchTables, after the await: what it does to the stores and the network.
FetchTablesReturn(r) ==
    /\ r \in Outcomes /\ r.kind = "tables"
    /\ Settle(r)
    /\ tables' = TablesAfter(tables, r)
    /\ IF r.st = "ok"
         THEN UNCHANGED dsError
         ELSE dsError' = FailureText(r.fail, "Failed to fetch tables")
    /\ dsLoading' = FALSE
    /\ obs' = [obs EXCEPT !.cf = NoScenario, !.solo = ReturnedAlone(r, TRUE),
                          !.ret = Returned(r, "undefined")]
    /\ UNCHANGED <<datasources, datasourceTypes, selectedDatasource, selectedTable,
                   tableSchema, tableData>>
    /\ UNCHANGED <<qVars, refreshing, selCalls, srvSources, nextId>>

\* fetchTables, after the await, called by the store or by a view that does
\* nothing after it.
FetchTablesDone(r) == FetchTablesReturn(r) /\ UNCHANGED viewVars

\* The Promise.all of selectTable call c (152-155) once another response has
\* arrived: it holds the responses that arrived so far.
Arrived(c, r) ==
    IF r.kind = "schema" THEN [c EXCEPT !.schema = r.resp]
                         ELSE [c EXCEPT !.sample = r.resp]

Fulfilled(c) == c.schema # Null /\ c.sample # Null

\* SchemaAfter as it would be if the schema were assigned as soon as its own
\* request returned.
SchemaAfterEager(old, c) == IF c.schema # Null THEN c.schema ELSE old

\* tableSchema after a response of selectTable call c arrived (156).
SchemaAfter(old, c) == IF Fulfilled(c) THEN c.schema ELSE old

\* tableData after a response of selectTable call c arrived (157).
DataAfter(old, c) == IF Fulfilled(c) THEN c.sample ELSE old

\* SelectTableReturn as it would be were the table noted before the check.
SelectTableReturnNoted(t) ==
    /\ selectedDatasource = Null
    /\ selectedTable' = t
    /\ UNCHANGED <<datasources, datasourceTypes, selectedDatasource, tables,
                   tableSchema, tableData, dsLoading, dsError>>
    /\ UNCHANGED <<qnVars, netVars>>

\* selectTable (144-163) when no datasource is selected: the early return
\* (145), what it does to the stores and the network.
SelectTableReturn(t) ==
    /\ selectedDatasource = Null
    /\ UNCHANGED <<dsVars, qnVars, netVars>>

\* selectTable (144-163) when no datasource is selected.
SelectTableNoSource(t) == SelectTableReturn(t) /\ UNCHANGED obs

\* selectTable (144-155), up to the await.
SelectTableCall(t) ==
    /\ CanCall
    /\ selectedDatasource # Null
    /\ selectedTable' = t
    /\ dsLoading' = TRUE
    /\ dsError' = NoStr
    /\ Send({ Request(nextId, "schema", selectedDatasource[1].name, t),
              [Request(nextId, "sample", selectedDatasource[1].name, t)
                  EXCEPT !.limit = 10] })
    /\ selCalls' = selCalls \cup {[call |-> nextId, schema |-> Null, sample |-> Null]}
    /\ obs' = [obs EXCEPT !.cf = NoScenario, !.ret = NoReturn,
                          !.solo = CalledAlone("selectTable")]
    /\ UNCHANGED <<datasources, datasourceTypes, selectedDatasource, tables,
                   tableSchema, tableData>>
    /\ UNCHANGED <<qnVars, srvSources>>

\* A response of selectTable's two requests arrives.  Promise.all rejects on
\* the first failure and fulfils on the second success; selectTable's
\* continuation (156-162) runs then.  A response that arrives after the
\* rejection is dropped.
SelectTableResponse(r) ==
    /\ r \in Outcomes /\ r.kind \in {"schema", "sample"}
    /\ Settle(r)
    /\ IF \E c \in selCalls : c.call = r.call
         THEN LET c == CHOOSE x \in selCalls : x.call = r.call
              IN  IF r.st = "fail"
                    THEN /\ dsError' = FailureText(r.fail, "Failed to fetch table info")
                         /\ dsLoading' = FALSE
                         /\ selCalls' = selCalls \ {c}
                         /\ obs' = [obs EXCEPT !.solo = ReturnedAlone(r, TRUE)]
                         /\ UNCHANGED <<tableSchema, tableData>>
                    ELSE /\ tableSchema' = SchemaAfter(tableSchema, Arrived(c, r))
                         /\ tableData' = DataAfter(tableData, Arrived(c, r))
                         /\ dsLoading' = IF Fulfilled(Arrived(c, r)) THEN FALSE ELSE dsLoading
                         /\ selCalls' = IF Fulfilled(Arrived(c, r))
                                          THEN selCalls \ {c}
                                          ELSE (selCalls \ {c}) \cup {Arrived(c, r)}
                         /\ obs' = [obs EXCEPT !.solo =
                                       ReturnedAlone(r, Fulfilled(Arrived(c, r)))]
                         /\ UNCHANGED dsError
         ELSE UNCHANGED <<tableSchema, tableData, dsLoading, dsError, selCalls, obs>>
    /\ UNCHANGED <<datasources, datasourceTypes, selectedDatasource, tables,
                   selectedTable>>
    /\ UNCHANGED <<qnVars, srvSources, nextId>>

\* clearError (165-167): what it does to the stores and the network.
ClearErrorFields ==
    /\ dsError' = NoStr
    /\ UNCHANGED <<datasources, datasourceTypes, selectedDatasource, tables,
                   selectedTable, tableSchema, tableData, dsLoading>>
    /\ UNCHANGED <<qnVars, netVars>>

\* clearError (165-167).
ClearError == ClearErrorFields /\ UNCHANGED obs

----------------------------------------------------------------------------
\* The query server, as the REST contract describes it.

Queries == {"q1", "q2"}

\* The answers of POST /query: a result of kind table, ok or error.  An error
\* result has no columns, no rows, row count 0 and a message.
QueryAnswers ==
    { [type |-> "table", columns |-> <<"id">>, data |-> << <<1>> >>,
       row_count |-> 1, error |-> NoStr],
      [type |-> "ok", columns |-> <<>>, data |-> <<>>, row_count |-> 0,
       error |-> NoStr],
      [type |-> "error", columns |-> <<>>, data |-> <<>>, row_count |-> 0,
       error |-> "syntax error"] }

\* The catalogs GET /query/models, /query/jobs and /query/knowledge-bases can
\* answer with.
CatalogAnswers(kind) ==
    { << [name |-> kind \o "1"] >>, << [name |-> kind \o "1"], [name |-> kind \o "2"] >> }

\* The answers of GET /query/status: a MindsDBStatus (types/index.ts 79-83),
\* connected with a version or disconnected with an error.
StatusAnswers ==
    { [connected |-> TRUE, version |-> "v1", error |-> NoStr],
      [connected |-> FALSE, version |-> NoStr, error |-> "unreachable"] }

\* The acknowledgement of POST /query/materialized-table.
Acknowledgement == [message |-> "created"]

\* The server handles a request of the query store.
QueryServerHandle(r) ==
    /\ r \in reqs /\ r.st = "sent"
    /\ \/ /\ r.kind = "query"
          /\ \E a \in QueryAnswers : reqs' = (reqs \ {r}) \cup {Answered(r, <<a>>)}
       \/ /\ r.kind \in {"models", "jobs", "knowledgeBases"}
          /\ \E a \in CatalogAnswers(r.kind) : reqs' = (reqs \ {r}) \cup {Answered(r, a)}
       \/ /\ r.kind = "status"
          /\ \E a \in StatusAnswers : reqs' = (reqs \ {r}) \cup {Answered(r, <<a>>)}
       \/ /\ r.kind = "materialize"
          /\ reqs' = (reqs \ {r}) \cup {Answered(r, <<Acknowledgement>>)}
       \/ /\ r.kind \in {"query", "models", "jobs", "knowledgeBases", "status",
                         "materialize"}
          /\ reqs' = (reqs \ {r}) \cup {Failed(r, Rejection)}
    /\ UNCHANGED <<dsVars, qVars, refreshing, viewVars, selCalls, srvSources, nextId, obs>>

----------------------------------------------------------------------------
\* The query store (query.ts 6-155).

\* The reading of the clock, new Date() (40): the number of store-action calls
\* made so far.
Now == nextId

\* Array.prototype.slice(k) for k < 0: the last -k elements, all when fewer.
SliceLast(list, k) ==
    LET start == IF Len(list) + k < 0 THEN 0 ELSE Len(list) + k
    IN  [i \in 1..(Len(list) - start) |-> list[start + i]]

\* Array.prototype.reverse
Reverse(list) == [i \in 1..Len(list) |-> list[Len(list) + 1 - i]]

\* The size of the window of lastQueries (20).
HistoryWindow == 10

\* The slice as it would be were the oldest entries taken, slice(0, 10).
RecentSliceOldest(list) ==
    [i \in 1..(IF Len(list) < HistoryWindow THEN Len(list) ELSE HistoryWindow) |-> list[i]]

\* The slice lastQueries takes (20).
RecentSlice(list) == SliceLast(list, -HistoryWindow)

\* lastQueries (20).
lastQueries == Reverse(RecentSlice(queryHistory))

\* isConnected (19).
isConnected == IF status = Null THEN FALSE ELSE status[1].connected

\* StatusAfter as it would be were the catch block to leave the status alone.
StatusAfterStale(old, r) == IF r.st = "ok" THEN r.resp ELSE old

\* The status after checkStatus returned (25, 27).
StatusAfter(old, r) ==
    IF r.st = "ok" THEN r.resp
    ELSE Some([connected |-> FALSE, version |-> NoStr, error |-> r.fail.message])

\* checkStatus (23-25), up to the await.
CheckStatusCall ==
    /\ CanCall
    /\ Send({Request(nextId, "status", NoStr, NoStr)})
    /\ UNCHANGED <<dsVars, qnVars, selCalls, srvSources, obs>>

\* checkStatus (25-29), after the await.
CheckStatusDone(r) ==
    /\ r \in Outcomes /\ r.kind = "status"
    /\ Settle(r)
    /\ status' = StatusAfter(status, r)
    /\ obs' = [obs EXCEPT !.ret = [Returned(r, "undefined") EXCEPT !.fail = r.fail],
                          !.round = RoundAfter(r)]
    /\ refreshing' = RefreshingAfter(r)
    /\ UNCHANGED <<currentQuery, queryResult, queryHistory, models, jobs,
                   knowledgeBases, qLoading, qError>>
    /\ UNCHANGED <<dsVars, viewVars, selCalls, srvSources, nextId>>

\* The error a result of kind error leaves in the store (45), with the message
\* of the result dropped.
ResultErrorGeneric(res) == "Query execution failed"

\* The error a result of kind error leaves in the store (45).
ResultError(res) == OrElse(res.error, "Query execution failed")

\* The result executeQuery makes up without the failure's message.
SynthesizedBlank(msg) ==
    [type |-> "error", columns |-> <<>>, data |-> <<>>, row_count |-> 0,
     error |-> NoStr]

\* The result executeQuery makes up when its request fails (51-57).
Synthesized(msg) ==
    [type |-> "error", columns |-> <<>>, data |-> <<>>, row_count |-> 0,
     error |-> IF Falsy(msg) THEN NoStr ELSE msg]

\* ExecuteQueryStart as it would be were the error of an earlier operation
\* kept.
ExecuteQueryStartKeepsError(q) ==
    /\ qLoading' = TRUE
    /\ currentQuery' = q
    /\ Send({[Request(nextId, "query", NoStr, NoStr) EXCEPT !.body = q]})
    /\ UNCHANGED <<qError, queryResult, queryHistory, models, jobs, knowledgeBases, status>>
    /\ UNCHANGED <<dsVars, refreshing, viewVars, selCalls, srvSources, obs>>

\* executeQuery (31-37), up to the await.
ExecuteQueryStart(q) ==
    /\ qLoading' = TRUE
    /\ qError' = NoStr
    /\ currentQuery' = q
    /\ Send({[Request(nextId, "query", NoStr, NoStr) EXCEPT !.body = q]})
    /\ UNCHANGED <<queryResult, queryHistory, models, jobs, knowledgeBases, status>>
    /\ UNCHANGED <<dsVars, refreshing, viewVars, selCalls, srvSources, obs>>

ExecuteQueryCall(q) == CanCall /\ ExecuteQueryStart(q)

\* HistoryPushed as it would be were the entry put in front (unshift).
HistoryUnshifted(old, entry) == <<entry>> \o old

\* queryHistory.value.push(entry)   (38-42)
HistoryPushed(old, entry) == Append(old, entry)

\* executeQuery (37-61), after the await.
ExecuteQueryDone(r) ==
    /\ r \in Outcomes /\ r.kind = "query"
    /\ Settle(r)
    /\ IF r.st = "ok"
         THEN /\ queryResult' = r.resp
              /\ queryHistory' = HistoryPushed(queryHistory,
                     [query |-> r.body, timestamp |-> Now,
                      success |-> r.resp[1].type # "error"])
              /\ qError' = IF r.resp[1].type = "error" THEN ResultError(r.resp[1])
                                                       ELSE qError
         ELSE /\ qError' = FailureText(r.fail, "Failed to execute query")
              /\ queryResult' = Some(Synthesized(qError'))
              /\ UNCHANGED queryHistory
    /\ qLoading' = FALSE
    /\ obs' = [obs EXCEPT !.execDone = @ + 1,
                          !.lastExec = [call |-> r.call, outcome |-> r,
                                        returned |-> queryResult']]
    /\ UNCHANGED <<currentQuery, models, jobs, knowledgeBases, status>>
    /\ UNCHANGED <<dsVars, refreshing, viewVars, selCalls, srvSources, nextId>>

\* The body of POST /query/materialized-table as createMaterializedTable
\* builds it (76-83).  where_clause is NoStr and limit is Null when undefined:
\* JSON drops them.
MaterializedTableRequest(tableName, sourceDatabase, sourceTable, columns, whereClause, limit) ==
    [table_name |-> tableName, source_database |-> sourceDatabase,
     source_table |-> sourceTable, columns |-> columns,
     where_clause |-> whereClause, limit |-> limit]

\* createMaterializedTable (64-83), up to the await: what it does to the
\* stores and the network.
CreateMaterializedTableStart(data) ==
    /\ qLoading' = TRUE
    /\ qError' = NoStr
    /\ Send({[Request(nextId, "materialize", data.source_database, data.source_table)
                 EXCEPT !.body = data.table_name, !.data = Some(data)]})
    /\ UNCHANGED <<currentQuery, queryResult, queryHistory, models, jobs,
                   knowledgeBases, status>>
    /\ UNCHANGED <<dsVars, refreshing, selCalls, srvSources>>

\* createMaterializedTable called for all columns of table t1 of source a.
CreateMaterializedTableCall ==
    /\ CanCall
    /\ CreateMaterializedTableStart(
          MaterializedTableRequest("cached", "a", "t1", <<"*">>, NoStr, Null))
    /\ UNCHANGED <<viewVars, obs>>

\* createMaterializedTable, after the await, as it would be were loading reset
\* on the success path only.
CreateMaterializedTableReturnOnSuccess(r) ==
    /\ r \in Outcomes /\ r.kind = "materialize"
    /\ Settle(r)
    /\ IF r.st = "ok"
         THEN UNCHANGED qError /\ qLoading' = FALSE
         ELSE /\ qError' = FailureText(r.fail, "Failed to create materialized table")
              /\ UNCHANGED qLoading
    /\ obs' = [obs EXCEPT !.ret = Returned(r, Success(r))]
    /\ UNCHANGED <<currentQuery, queryResult, queryHistory, models, jobs,
                   knowledgeBases, status>>
    /\ UNCHANGED <<dsVars, refreshing, selCalls, srvSources, nextId>>

\* createMaterializedTable (84-90), after the await: what it does to the
\* stores and the network.
CreateMaterializedTableReturn(r) ==
    /\ r \in Outcomes /\ r.kind = "materialize"
    /\ Settle(r)
    /\ IF r.st = "ok"
         THEN UNCHANGED qError
         ELSE qError' = FailureText(r.fail, "Failed to create materialized table")
    /\ qLoading' = FALSE
    /\ obs' = [obs EXCEPT !.ret = Returned(r, Success(r))]
    /\ UNCHANGED <<currentQuery, queryResult, queryHistory, models, jobs,
                   knowledgeBases, status>>
    /\ UNCHANGED <<dsVars, refreshing, selCalls, srvSources, nextId>>

\* createMaterializedTable, after the await, called with no view waiting.
CreateMaterializedTableDone(r) ==
    CreateMaterializedTableReturn(r) /\ UNCHANGED viewVars

\* ClearResultFields as it would be were the history emptied with the result.
ClearResultAll ==
    /\ queryResult' = Null
    /\ qError' = NoStr
    /\ queryHistory' = <<>>
    /\ UNCHANGED <<currentQuery, models, jobs, knowledgeBases, status, qLoading>>
    /\ UNCHANGED <<dsVars, refreshing, viewVars, netVars>>

\* clearResult (117-120): what it does to the stores and the network.
ClearResultFields ==
    /\ queryResult' = Null
    /\ qError' = NoStr
    /\ UNCHANGED <<currentQuery, queryHistory, models, jobs, knowledgeBases,
                   status, qLoading>>
    /\ UNCHANGED <<dsVars, refreshing, viewVars, netVars>>

\* clearResult (117-120).
ClearResult == ClearResultFields /\ UNCHANGED obs

\* clearError of the query store (122-124): what it does to the stores and the
\* network.
QueryClearErrorFields ==
    /\ qError' = NoStr
    /\ UNCHANGED <<currentQuery, queryResult, queryHistory, models, jobs,
                   knowledgeBases, status, qLoading>>
    /\ UNCHANGED <<dsVars, refreshing, viewVars, netVars>>

\* clearError of the query store (122-124).
QueryClearError == QueryClearErrorFields /\ UNCHANGED obs

\* setQuery (126-128): what it does to the stores and the network.
SetQueryFields(q) ==
    /\ currentQuery' = q
    /\ UNCHANGED <<queryResult, queryHistory, models, jobs, knowledgeBases,
                   status, qLoading, qError>>
    /\ UNCHANGED <<dsVars, refreshing, viewVars, netVars>>

\* setQuery (126-128).
SetQuery(q) == SetQueryFields(q) /\ UNCHANGED obs

\* A catalog after its fetch failed, were the catch block to empty it.
CatalogAfterEmptied(old, r) == IF r.st = "ok" THEN r.resp ELSE <<>>

\* A catalog after its fetch returned (95, 103, 111): replaced by the answer,
\* left alone by the catch block.
CatalogAfter(old, r) == IF r.st = "ok" THEN r.resp ELSE old

\* ErrorAfter as it would be were the error reset by a fetch that succeeds.
ErrorAfterCleared(old, r, fallback) ==
    IF r.st = "ok" THEN NoStr ELSE OrElse(r.fail.message, fallback)

\* The error field after a catalog fetch returned (97, 105, 113).
ErrorAfter(old, r, fallback) ==
    IF r.st = "ok" THEN old ELSE OrElse(r.fail.message, fallback)

\* refresh of the object browser (MindsDBObjects.vue 15-21), up to the await:
\* fetchModels, fetchJobs and fetchKnowledgeBases are called one after the
\* other, each up to its own await.  The button is disabled while refreshing
\* (MindsDBObjects.vue 60-63).
Refresh ==
    /\ CanCall
    /\ ~refreshing
    /\ refreshing' = TRUE
    /\ Send({ [Request(nextId, "models", NoStr, NoStr) EXCEPT !.joined = TRUE],
              [Request(nextId, "jobs", NoStr, NoStr) EXCEPT !.joined = TRUE],
              [Request(nextId, "knowledgeBases", NoStr, NoStr) EXCEPT !.joined = TRUE] })
    /\ obs' = [obs EXCEPT !.round =
                 [call |-> nextId,
                  start |-> [models |-> models, jobs |-> jobs,
                             knowledgeBases |-> knowledgeBases],
                  got |-> {}]]
    /\ UNCHANGED <<dsVars, viewVars, qVars, selCalls, srvSources>>

\* refresh of the dashboard (part_002 17-27), up to the await: checkStatus,
\* fetchDatasources, fetchModels, fetchJobs and fetchKnowledgeBases are called
\* one after the other, each up to its own await; fetchDatasources sets its
\* loading flag and clears its error on the way (router.ts 73-74).  The button
\* is disabled while refreshing (part_002 44).
DashboardRefresh ==
    /\ CanCall
    /\ ~refreshing
    /\ refreshing' = TRUE
    /\ dsLoading' = TRUE
    /\ dsError' = NoStr
    /\ Send({ [Request(nextId, k, NoStr, NoStr) EXCEPT !.joined = TRUE] :
                k \in {"status", "list", "models", "jobs", "knowledgeBases"} })
    /\ obs' = [obs EXCEPT !.cf = NoScenario, !.ret = NoReturn,
                          !.solo = [call |-> 0, kind |-> "none", stage |-> "overlapped"],
                          !.round =
                 [call |-> nextId,
                  start |-> [models |-> models, jobs |-> jobs,
                             knowledgeBases |-> knowledgeBases],
                  got |-> {}]]
    /\ UNCHANGED <<datasources, datasourceTypes, selectedDatasource, tables,
                   selectedTable, tableSchema, tableData>>
    /\ UNCHANGED <<viewVars, qVars, selCalls, srvSources>>

\* The continuation of a catalog fetch that a refresh may await.
RefreshJoin(r) ==
    /\ refreshing' = RefreshingAfter(r)
    /\ obs' = [obs EXCEPT !.round = RoundAfter(r)]

\* fetchModels (93-95) called on its own, up to the await.
FetchModelsCall ==
    /\ CanCall
    /\ Send({Request(nextId, "models", NoStr, NoStr)})
    /\ UNCHANGED <<dsVars, qnVars, selCalls, srvSources, obs>>

\* fetchJobs (101-103) called on its own, up to the await.
FetchJobsCall ==
    /\ CanCall
    /\ Send({Request(nextId, "jobs", NoStr, NoStr)})
    /\ UNCHANGED <<dsVars, qnVars, selCalls, srvSources, obs>>

\* fetchKnowledgeBases (109-111) called on its own, up to the await.
FetchKnowledgeBasesCall ==
    /\ CanCall
    /\ Send({Request(nextId, "knowledgeBases", NoStr, NoStr)})
    /\ UNCHANGED <<dsVars, qnVars, selCalls, srvSources, obs>>

\* fetchModels (93-99), after the await.
FetchModelsDone(r) ==
    /\ r \in Outcomes /\ r.kind = "models"
    /\ Settle(r)
    /\ models' = CatalogAfter(models, r)
    /\ qError' = ErrorAfter(qError, r, "Failed to fetch models")
    /\ RefreshJoin(r)
    /\ UNCHANGED <<currentQuery, queryResult, queryHistory, jobs, knowledgeBases,
                   status, qLoading>>
    /\ UNCHANGED <<dsVars, viewVars, selCalls, srvSources, nextId>>

\* fetchJobs (101-107), after the await.
FetchJobsDone(r) ==
    /\ r \in Outcomes /\ r.kind = "jobs"
    /\ Settle(r)
    /\ jobs' = CatalogAfter(jobs, r)
    /\ qError' = ErrorAfter(qError, r, "Failed to fetch jobs")
    /\ RefreshJoin(r)
    /\ UNCHANGED <<currentQuery, queryResult, queryHistory, models, knowledgeBases,
                   status, qLoading>>
    /\ UNCHANGED <<dsVars, viewVars, selCalls, srvSources, nextId>>

\* fetchKnowledgeBases (109-115), after the await.
FetchKnowledgeBasesDone(r) ==
    /\ r \in Outcomes /\ r.kind = "knowledgeBases"
    /\ Settle(r)
    /\ knowledgeBases' = CatalogAfter(knowledgeBases, r)
    /\ qError' = ErrorAfter(qError, r, "Failed to fetch knowledge bases")
    /\ RefreshJoin(r)
    /\ UNCHANGED <<currentQuery, queryResult, queryHistory, models, jobs,
                   status, qLoading>>
    /\ UNCHANGED <<dsVars, viewVars, selCalls, srvSources, nextId>>

----------------------------------------------------------------------------
\* The views.

\* The refs of the connection modal as the view declares them (part_003 17-22).
\* formData holds the entered values as pairs of field name and value.
ClosedModal ==
    [showAddModal |-> FALSE, selectedType |-> Null, formData |-> {},
     connectionName |-> "", creating |-> FALSE, createSuccess |-> FALSE]

\* The refs of the materialized-table form as the view declares them
\* (MaterializedTables.vue 16-25).  limitRows is Null while undefined.
EmptyForm ==
    [tableName |-> "", selectedDatabase |-> "", selectedTable |-> "",
     selectedColumns |-> <<>>, whereClause |-> "", limitRows |-> Null,
     creating |-> FALSE, createSuccess |-> FALSE,
     availableTables |-> <<>>, availableColumns |-> <<>>]

\* Everything but the form is left alone.
FormOnly == UNCHANGED <<dsVars, qVars, refreshing, modal, timers, netVars, obs>>

\* v-model of the target name (MaterializedTables.vue 162).
SetTableName(n) == form' = [form EXCEPT !.tableName = n] /\ FormOnly

\* v-model of the predicate (256).
SetWhereClause(w) == form' = [form EXCEPT !.whereClause = w] /\ FormOnly

\* v-model.number of the limit (269).
SetLimitRows(l) == form' = [form EXCEPT !.limitRows = l] /\ FormOnly

\* The source database is chosen (179-180): v-model, then onDatabaseChange
\* (54-60) up to the await of fetchTables.
OnDatabaseChange(db) ==
    /\ db # "" => CanCall
    /\ form' = [form EXCEPT !.selectedDatabase = db, !.selectedTable = "",
                            !.selectedColumns = <<>>, !.availableColumns = <<>>]
    /\ IF db # ""
         THEN FetchTablesStart(db)
         ELSE UNCHANGED <<dsVars, qVars, refreshing, netVars, obs>>
    /\ UNCHANGED <<modal, timers>>

\* onDatabaseChange after fetchTables returned (60-61).
OnDatabaseChangeDone(r) ==
    /\ FetchTablesReturn(r)
    /\ form' = [form EXCEPT !.availableTables = tables']
    /\ UNCHANGED <<modal, timers>>

\* The source table is chosen (201-204): v-model, then onTableChange (65-71)
\* up to the await.  The schema is requested from the API client directly, by
\* no store.  The select is disabled while no database is chosen.
OnTableChange(t) ==
    /\ form.selectedDatabase # ""
    /\ t # "" => CanCall
    /\ form' = [form EXCEPT !.selectedTable = t, !.selectedColumns = <<>>]
    /\ IF t # ""
         THEN Send({Request(nextId, "columns", form.selectedDatabase, t)})
         ELSE UNCHANGED <<reqs, nextId>>
    /\ UNCHANGED <<dsVars, qVars, refreshing, modal, timers, selCalls, srvSources,
                   obs>>

\* schema.columns.map(c => ({ name: c.name, type: c.type }))   (72)
ColumnsOf(schema) ==
    [i \in 1..Len(schema.columns) |->
        [name |-> schema.columns[i].name, type |-> schema.columns[i].type]]

\* onTableChange after the await (72).  There is no try around the await: a
\* failed request rejects the promise of onTableChange, which nothing handles,
\* and no state is written.
OnTableChangeDone(r) ==
    /\ r \in Outcomes /\ r.kind = "columns"
    /\ Settle(r)
    /\ form' = IF r.st = "ok"
                 THEN [form EXCEPT !.availableColumns = ColumnsOf(r.resp[1])]
                 ELSE form
    /\ UNCHANGED <<dsVars, qVars, refreshing, modal, timers, selCalls, srvSources,
                   nextId, obs>>

\* Array.prototype.indexOf(x) > -1
Includes(list, x) == \E i \in 1..Len(list) : list[i] = x

\* toggleColumn (76-83): the first occurrence is spliced out, or the name is
\* pushed.
ToggleColumn(c) ==
    /\ \E i \in 1..Len(form.availableColumns) : form.availableColumns[i].name = c
    /\ form' = [form EXCEPT !.selectedColumns =
                    IF Includes(@, c)
                      THEN LET idx == CHOOSE i \in 1..Len(@) :
                                          @[i] = c /\ \A j \in 1..(i - 1) : @[j] # c
                           IN  SubSeq(@, 1, idx - 1) \o SubSeq(@, idx + 1, Len(@))
                      ELSE Append(@, c)]
    /\ FormOnly

\* selectAllColumns (85-91); the button is shown while there are columns (219).
SelectAllColumns ==
    /\ form.availableColumns # <<>>
    /\ form' = [form EXCEPT !.selectedColumns =
                    IF Len(@) = Len(form.availableColumns)
                      THEN <<>>
                      ELSE [i \in 1..Len(form.availableColumns) |->
                               form.availableColumns[i].name]]
    /\ FormOnly

\* Text is a sequence of pieces; concatenation of strings is concatenation of
\* the sequences.  NL is the newline of the template literal.
NL == "\n"

\* Array.prototype.join(sep)
JoinWith(list, sep) ==
    [i \in 1..(IF Len(list) = 0 THEN 0 ELSE 2 * Len(list) - 1) |->
        IF i % 2 = 1 THEN list[(i + 1) \div 2] ELSE sep]

\* if (limitRows.value): the limit is given and is not 0.
LimitTruthy(l) == l # Null /\ l[1] # 0

\* The text of a number in a template literal.
NumberText(l) == ToString(l[1])

\* Incomplete as it would be were only the target name looked at.
IncompleteNameOnly(f) == f.tableName = ""

\* !tableName.value || !selectedDatabase.value || !selectedTable.value  (29, 94)
Incomplete(f) ==
    f.tableName = "" \/ f.selectedDatabase = "" \/ f.selectedTable = ""

Placeholder == <<"-- Fill in the form to generate SQL">>

\* SqlPreview as it would be were the limit appended before the predicate.
SqlPreviewLimitFirst(f) ==
    IF Incomplete(f) THEN Placeholder
    ELSE LET cols == IF Len(f.selectedColumns) > 0
                       THEN JoinWith(f.selectedColumns, ", ") ELSE <<"*">>
             sql0 == <<"CREATE TABLE mindsdb.", f.tableName, " AS", NL, "SELECT ">>
                     \o cols
                     \o <<NL, "FROM ", f.selectedDatabase, ".", f.selectedTable>>
             sql1 == IF LimitTruthy(f.limitRows)
                       THEN sql0 \o <<NL, "LIMIT ", NumberText(f.limitRows)>> ELSE sql0
             sql2 == IF f.whereClause # ""
                       THEN sql1 \o <<NL, "WHERE ", f.whereClause>> ELSE sql1
         IN  sql2 \o <<";">>

\* sqlPreview (28-48) of the form state f.
SqlPreview(f) ==
    IF Incomplete(f) THEN Placeholder
    ELSE LET cols == IF Len(f.selectedColumns) > 0
                       THEN JoinWith(f.selectedColumns, ", ") ELSE <<"*">>
             sql0 == <<"CREATE TABLE mindsdb.", f.tableName, " AS", NL, "SELECT ">>
                     \o cols
                     \o <<NL, "FROM ", f.selectedDatabase, ".", f.selectedTable>>
             sql1 == IF f.whereClause # ""
                       THEN sql0 \o <<NL, "WHERE ", f.whereClause>> ELSE sql0
             sql2 == IF LimitTruthy(f.limitRows)
                       THEN sql1 \o <<NL, "LIMIT ", NumberText(f.limitRows)>> ELSE sql1
         IN  sql2 \o <<";">>

\* sqlPreview (28).
sqlPreview == SqlPreview(form)

\* createTable (93-96) on an incomplete form: the early return, what it does
\* to the stores, the views and the network.
CreateTableReturn ==
    /\ Incomplete(form)
    /\ UNCHANGED <<dsVars, qVars, refreshing, viewVars, netVars>>

\* The arguments createTable passes to createMaterializedTable (101-108).
CreateTableArguments(f) ==
    MaterializedTableRequest(
        f.tableName, f.selectedDatabase, f.selectedTable,
        IF Len(f.selectedColumns) > 0 THEN f.selectedColumns ELSE <<"*">>,
        IF f.whereClause = "" THEN NoStr ELSE f.whereClause,
        f.limitRows)

\* createTable (93-108), up to the await: clearError, then
\* createMaterializedTable up to its await.  The button is disabled while
\* creating (280).
CreateTableCall ==
    /\ ~Incomplete(form)
    /\ ~form.creating
    /\ CanCall
    /\ form' = [form EXCEPT !.creating = TRUE]
    /\ CreateMaterializedTableStart(CreateTableArguments(form))
    /\ UNCHANGED <<modal, timers, obs>>

\* createTable after createMaterializedTable returned (110-123).
CreateTableDone(r) ==
    /\ CreateMaterializedTableReturn(r)
    /\ form' = [form EXCEPT !.creating = FALSE,
                            !.createSuccess = IF r.st = "ok" THEN TRUE ELSE @]
    /\ timers' = IF r.st = "ok" THEN Append(timers, "resetForm") ELSE timers
    /\ UNCHANGED modal

\* The callback createTable handed to setTimeout runs (115-122).
ResetFormTimer ==
    /\ timers # <<>> /\ Head(timers) = "resetForm"
    /\ timers' = Tail(timers)
    /\ form' = [form EXCEPT !.createSuccess = FALSE, !.tableName = "",
                            !.selectedTable = "", !.selectedColumns = <<>>,
                            !.whereClause = "", !.limitRows = Null]
    /\ UNCHANGED <<dsVars, qVars, refreshing, modal, netVars, obs>>

\* The connection-creation modal of the data-source view (part_003).

\* Everything but the modal is left alone.
ModalOnly == UNCHANGED <<dsVars, qVars, refreshing, form, timers, netVars, obs>>

\* What the modal displays (part_003 261, 279, 285, 303): nothing while it is
\* not shown, the success message while createSuccess, the type list while no
\* type is chosen, the connection form otherwise.
Display(m) ==
    IF ~m.showAddModal THEN "closed"
    ELSE IF m.createSuccess THEN "success"
    ELSE IF m.selectedType = Null THEN "type-selection"
    ELSE "field-entry"

\* The refs openAddModal and closeModal reset (46-50, 65-69), with the modal
\* shown or hidden.
ModalReset(m, shown) ==
    [m EXCEPT !.showAddModal = shown, !.selectedType = Null, !.formData = {},
              !.connectionName = "", !.createSuccess = FALSE]

\* openAddModal (45-51).  The button lies under the backdrop of the modal
\* while the modal is shown (part_003 261-264).
OpenAddModal ==
    /\ ~modal.showAddModal
    /\ modal' = ModalReset(modal, TRUE)
    /\ ModalOnly

\* The default values of the fields of a type (57-61).
Defaults(type) ==
    { <<type.fields[i].name, type.fields[i].default>> :
        i \in { j \in 1..Len(type.fields) : "default" \in DOMAIN type.fields[j] } }

\* selectType (53-62), offered by the type list (285-291).
SelectType(type) ==
    /\ Display(modal) = "type-selection"
    /\ modal' = [modal EXCEPT !.selectedType = Some(type), !.formData = Defaults(type)]
    /\ ModalOnly

\* Back to types (304-306).
BackToTypes ==
    /\ Display(modal) = "field-entry"
    /\ modal' = [modal EXCEPT !.selectedType = Null]
    /\ ModalOnly

\* closeModal (64-70), called by the backdrop and the close button (264, 271).
CloseModal ==
    /\ modal.showAddModal
    /\ modal' = ModalReset(modal, FALSE)
    /\ ModalOnly

\* v-model="connectionName" (318)
SetConnectionName(n) ==
    /\ Display(modal) = "field-entry"
    /\ modal' = [modal EXCEPT !.connectionName = n]
    /\ ModalOnly

\* v-model="formData[field.name]" (327-332), for a field of the chosen type.
SetField(name, value) ==
    /\ Display(modal) = "field-entry"
    /\ \E i \in 1..Len(modal.selectedType[1].fields) :
          modal.selectedType[1].fields[i].name = name
    /\ modal' = [modal EXCEPT !.formData =
                    { p \in @ : p[1] # name } \cup {<<name, value>>}]
    /\ ModalOnly

\* createConnection (72-82), up to the await: clearError, then createDatasource
\* up to its await.  The form exists in field-entry only (303-311) and its
\* button is disabled while creating or without a name (349).
CreateConnectionCall ==
    /\ Display(modal) = "field-entry"
    /\ ~modal.creating
    /\ modal.selectedType # Null /\ modal.connectionName # ""
    /\ modal' = [modal EXCEPT !.creating = TRUE]
    /\ CreateDatasourceStart(modal.connectionName, modal.selectedType[1].type,
                             modal.formData)
    /\ UNCHANGED <<form, timers>>

\* CreateConnectionDone as it would be were the form reset on failure too.
CreateConnectionDoneReset(r) ==
    /\ CreateDatasourceReturn(r)
    /\ modal' = IF r.st = "ok"
                  THEN [modal EXCEPT !.creating = FALSE, !.createSuccess = TRUE]
                  ELSE [ModalReset(modal, modal.showAddModal) EXCEPT !.creating = FALSE]
    /\ timers' = IF r.st = "ok" THEN Append(timers, "closeModal") ELSE timers
    /\ UNCHANGED form

\* createConnection after createDatasource returned (84-91): the submission
\* is over, and a success is displayed and schedules closeModal.
CreateConnectionDone(r) ==
    /\ CreateDatasourceReturn(r)
    /\ modal' = [modal EXCEPT !.creating = FALSE,
                              !.createSuccess = IF r.st = "ok" THEN TRUE ELSE @]
    /\ timers' = IF r.st = "ok" THEN Append(timers, "closeModal") ELSE timers
    /\ UNCHANGED form

\* CloseModalTimer as it would be were the modal hidden and nothing reset.
CloseModalTimerHides ==
    /\ timers # <<>> /\ Head(timers) = "closeModal"
    /\ timers' = Tail(timers)
    /\ modal' = [modal EXCEPT !.showAddModal = FALSE]
    /\ UNCHANGED <<dsVars, qVars, refreshing, form, netVars, obs>>

\* The callback createConnection handed to setTimeout runs (88-90).
CloseModalTimer ==
    /\ timers # <<>> /\ Head(timers) = "closeModal"
    /\ timers' = Tail(timers)
    /\ modal' = ModalReset(modal, FALSE)
    /\ UNCHANGED <<dsVars, qVars, refreshing, form, netVars, obs>>

----------------------------------------------------------------------------
\* Initial state: the stores as constructed, nothing in flight.

InitObs ==
    [cf |-> [stage |-> "none", name |-> NoStr, call |-> 0],
     solo |-> [call |-> 0, kind |-> "none", stage |-> "none"],
     ret |-> NoReturn,
     set |-> [op |-> "none", arg |-> NoStr, tick |-> 0],
     execDone |-> 0,
     lastExec |-> [call |-> 0, outcome |-> Request(0, "none", NoStr, NoStr),
                   returned |-> Null],
     round |-> [call |-> 0, start |-> <<>>, got |-> <<>>]]

\* The stores as constructed, with the given catalog and server list.
Constructed(catalog, served) ==
    /\ srvSources = served
    /\ datasources = catalog
    /\ datasourceTypes = <<>>
    /\ selectedDatasource = Null
    /\ tables = <<>>
    /\ selectedTable = NoStr
    /\ tableSchema = Null
    /\ tableData = Null
    /\ dsLoading = FALSE
    /\ dsError = NoStr
    /\ currentQuery = ""
    /\ queryResult = Null
    /\ queryHistory = <<>>
    /\ models = <<>>
    /\ jobs = <<>>
    /\ knowledgeBases = <<>>
    /\ status = Null
    /\ qLoading = FALSE
    /\ qError = NoStr
    /\ refreshing = FALSE
    /\ modal = ClosedModal
    /\ form = EmptyForm
    /\ timers = <<>>
    /\ reqs = {}
    /\ selCalls = {}
    /\ nextId = 1
    /\ obs = InitObs

Init == \E served \in InitialServerLists : Constructed(<<>>, served)

\* The console before any source is registered.
InitEmpty == Constructed(<<>>, <<>>)

\* The console with the catalog already loaded: a state the program is in
\* once the fetchDatasources of a view's onMounted (part_003 38-43) has returned.
InitLoaded == \E served \in InitialServerLists : Constructed(served, served)

\* The tables the view offers for selection (part_003 183-186).
ListedTables == { tables[i] : i \in 1..Len(tables) }

\* Selection: the operations that read or write the selected source, its
\* table list, the selected table, its schema and its sample.  The view offers
\* the sources of the catalog for deletion (part_003 138-159) and the tables of
\* the table list for selection.
NextSelection ==
    \/ \E i \in 1..Len(datasources) : SelectDatasource(i)
    \/ \E n \in NamesOf(datasources) : DeleteDatasourceCall(n)
    \/ \E t \in TableNames : SelectTableNoSource(t)
    \/ \E t \in ListedTables : SelectTableCall(t)
    \/ \E r \in reqs : ServerHandle(r)
    \/ \E r \in Outcomes :
          \/ DeleteDatasourceDone(r)
          \/ FetchTablesDone(r)
          \/ SelectTableResponse(r)

SpecSelection == InitLoaded /\ [][NextSelection]_vars

\* Catalog: the operations that read or write the list of data sources.
NextCatalog ==
    \/ FetchDatasourcesCall
    \/ \E n \in Names : CreateDatasourceCall(n)
    \/ \E n \in Names : DeleteDatasourceCall(n)
    \/ \E r \in reqs : ServerHandle(r)
    \/ \E r \in Outcomes :
          \/ FetchDatasourcesDone(r)
          \/ CreateDatasourceDone(r)
          \/ DeleteDatasourceDone(r)

SpecCatalog == Init /\ [][NextCatalog]_vars

\* The datasource store: every operation of it.  The views offer the sources
\* of the catalog for selection, deletion and table listing
\* (MaterializedTables.vue 54-63) and let any name be registered.
NextStore ==
    \/ FetchTypesCall
    \/ FetchDatasourcesCall
    \/ \E n \in Names : CreateDatasourceCall(n)
    \/ \E n \in NamesOf(datasources) : DeleteDatasourceCall(n)
    \/ \E i \in 1..Len(datasources) : SelectDatasource(i)
    \/ \E n \in NamesOf(datasources) : FetchTablesCall(n)
    \/ \E t \in TableNames : SelectTableNoSource(t)
    \/ \E t \in ListedTables : SelectTableCall(t)
    \/ ClearError
    \/ \E r \in reqs : ServerHandle(r)
    \/ \E r \in Outcomes :
          \/ FetchTypesDone(r)
          \/ FetchDatasourcesDone(r)
          \/ CreateDatasourceDone(r)
          \/ DeleteDatasourceDone(r)
          \/ FetchTablesDone(r)
          \/ SelectTableResponse(r)

SpecStore == InitLoaded /\ [][NextStore]_vars

\* The console with a source and one of its tables selected: a state the
\* program is in once selectDatasource of the first source of the catalog and
\* selectTable of its first table have returned.  The schema and the sample
\* held were fetched by a call made before the run (call 0).
InitSelected ==
    \E served \in InitialServerLists \ {<<>>} :
        LET n == served[1].name
            t == ServerTables(n)[1]
        IN  /\ srvSources = served
            /\ datasources = served
            /\ datasourceTypes = <<>>
            /\ selectedDatasource = Some(served[1])
            /\ tables = ServerTables(n)
            /\ selectedTable = t
            /\ tableSchema = <<ServerSchema(n, t, 0)>>
            /\ tableData = <<ServerSample(n, t, 10, 0)>>
            /\ dsLoading = FALSE
            /\ dsError = NoStr
            /\ currentQuery = ""
            /\ queryResult = Null
            /\ queryHistory = <<>>
            /\ models = <<>>
            /\ jobs = <<>>
            /\ knowledgeBases = <<>>
            /\ status = Null
            /\ qLoading = FALSE
            /\ qError = NoStr
            /\ refreshing = FALSE
            /\ modal = ClosedModal
            /\ form = EmptyForm
            /\ timers = <<>>
            /\ reqs = {}
            /\ selCalls = {}
            /\ nextId = 1
            /\ obs = InitObs

\* Mutations of the catalog and of the table list while a source and a table
\* are selected: fetchDatasources, createDatasource, deleteDatasource and
\* fetchTables called on its own (MaterializedTables.vue 54-63).
NextMutation ==
    \/ FetchDatasourcesCall
    \/ \E n \in Names : CreateDatasourceCall(n)
    \/ \E n \in Names : DeleteDatasourceCall(n)
    \/ \E n \in Names : FetchTablesCall(n)
    \/ \E r \in reqs : ServerHandle(r)
    \/ \E r \in Outcomes :
          \/ FetchDatasourcesDone(r)
          \/ CreateDatasourceDone(r)
          \/ DeleteDatasourceDone(r)
          \/ FetchTablesDone(r)

SpecMutation == InitSelected /\ [][NextMutation]_vars

\* Query execution: executeQuery and clearResult.
NextQuery ==
    \/ \E q \in Queries : ExecuteQueryCall(q)
    \/ ClearResult
    \/ \E r \in reqs : QueryServerHandle(r)
    \/ \E r \in Outcomes : ExecuteQueryDone(r)

SpecQuery == InitEmpty /\ [][NextQuery]_vars

\* Query history: executeQuery called again and again, one call at a time,
\* each call answered by the server.
NextHistory ==
    \/ nextId <= MaxQueries /\ reqs = {} /\ ExecuteQueryStart("q1")
    \/ \E r \in reqs : r.kind = "query" /\ QueryServerHandle(r)
    \/ \E r \in reqs : r.st = "ok" /\ ExecuteQueryDone(r)

SpecHistory == InitEmpty /\ [][NextHistory]_vars

\* The query store: every operation of it.
NextQueryStore ==
    \/ CheckStatusCall
    \/ \E q \in Queries : ExecuteQueryCall(q)
    \/ CreateMaterializedTableCall
    \/ FetchModelsCall
    \/ FetchJobsCall
    \/ FetchKnowledgeBasesCall
    \/ ClearResult
    \/ QueryClearError
    \/ \E q \in Queries : SetQuery(q)
    \/ \E r \in reqs : QueryServerHandle(r)
    \/ \E r \in Outcomes :
          \/ CheckStatusDone(r)
          \/ ExecuteQueryDone(r)
          \/ CreateMaterializedTableDone(r)
          \/ FetchModelsDone(r)
          \/ FetchJobsDone(r)
          \/ FetchKnowledgeBasesDone(r)

SpecQueryStore == InitEmpty /\ [][NextQueryStore]_vars

\* A session of the query editor: queries are submitted at any time, also
\* while another call is in flight; a materialized table is created and the
\* model catalog fetched from the idle console; the result and the error are
\* cleared and another text is restored into the editor at any time.
NextSession ==
    \/ ExecuteQueryCall("q1")
    \/ reqs = {} /\ CreateMaterializedTableCall
    \/ reqs = {} /\ FetchModelsCall
    \/ ClearResult
    \/ QueryClearError
    \/ SetQuery("q2")
    \/ \E r \in reqs : QueryServerHandle(r)
    \/ \E r \in Outcomes :
          \/ ExecuteQueryDone(r)
          \/ CreateMaterializedTableDone(r)
          \/ FetchModelsDone(r)

SpecSession == InitEmpty /\ [][NextSession]_vars

\* Nothing is in flight.
Idle == reqs = {}

\* Errors: operations of both stores called one after the other, each from
\* the idle console: the fetches that do not reset the error (fetchTypes,
\* fetchModels), operations that do (fetchDatasources, createDatasource,
\* executeQuery, createMaterializedTable), and the setters that clear it.
NextErrors ==
    \/ Idle /\ FetchTypesCall
    \/ Idle /\ FetchDatasourcesCall
    \/ Idle /\ CreateDatasourceCall("a")
    \/ Idle /\ FetchModelsCall
    \/ Idle /\ ExecuteQueryCall("q1")
    \/ Idle /\ CreateMaterializedTableCall
    \/ ClearError
    \/ ClearResult
    \/ QueryClearError
    \/ \E r \in reqs : r.kind \in {"types", "list", "create"} /\ ServerHandle(r)
    \/ \E r \in reqs : QueryServerHandle(r)
    \/ \E r \in Outcomes :
          \/ FetchTypesDone(r)
          \/ FetchDatasourcesDone(r)
          \/ CreateDatasourceDone(r)
          \/ FetchModelsDone(r)
          \/ ExecuteQueryDone(r)
          \/ CreateMaterializedTableDone(r)

SpecErrors == InitEmpty /\ [][NextErrors]_vars

\* The setter called in this step is noted in obs.set; tick tells two calls of
\* the same setter apart.
Observed(op, arg) ==
    obs' = [obs EXCEPT !.set = [op |-> op, arg |-> arg, tick |-> 1 - @.tick]]

\* The synchronous setters of both stores, called at any time, also while a
\* call is in flight, with a source and a table selected; the catalog is
\* fetched and queries are executed one call after the other.
NextSetters ==
    \/ ClearErrorFields /\ Observed("clearError", "datasources")
    \/ QueryClearErrorFields /\ Observed("clearError", "query")
    \/ ClearResultFields /\ Observed("clearResult", NoStr)
    \/ \E q \in Queries : SetQueryFields(q) /\ Observed("setQuery", q)
    \/ Idle /\ FetchDatasourcesCall
    \/ Idle /\ ExecuteQueryCall("q1")
    \/ \E r \in reqs : r.kind = "list" /\ ServerHandle(r)
    \/ \E r \in reqs : QueryServerHandle(r)
    \/ \E r \in Outcomes :
          \/ FetchDatasourcesDone(r)
          \/ ExecuteQueryDone(r)

SpecSetters == InitSelected /\ [][NextSetters]_vars

\* The elements of a list.
Elements(list) == { list[i] : i \in 1..Len(list) }

\* The materialized-table form, filled in one step after the other from the
\* idle console with the catalog loaded: the database and the table are
\* chosen among those offered, columns are toggled, a predicate and a limit
\* are typed, and createTable is run, also on an incomplete form (the call
\* noted in obs.set).
NextForm ==
    \/ \E n \in {"", "cached"} : SetTableName(n)
    \/ \E db \in {""} \cup NamesOf(datasources) : Idle /\ OnDatabaseChange(db)
    \/ \E t \in {""} \cup Elements(form.availableTables) : Idle /\ OnTableChange(t)
    \/ \E c \in {"id", "amount"} : ToggleColumn(c)
    \/ SelectAllColumns
    \/ \E w \in {"", "amount > 100"} : SetWhereClause(w)
    \/ \E l \in {Null, Some(0), Some(50)} : SetLimitRows(l)
    \/ CreateTableReturn /\ Observed("createTable", NoStr)
    \/ Idle /\ CreateTableCall
    \/ \E r \in reqs : r.kind \in {"tables", "columns"} /\ ServerHandle(r)
    \/ \E r \in reqs : QueryServerHandle(r)
    \/ \E r \in Outcomes :
          \/ OnDatabaseChangeDone(r)
          \/ OnTableChangeDone(r)
          \/ CreateTableDone(r)
    \/ ResetFormTimer

SpecForm == InitLoaded /\ [][NextForm]_vars

\* Every action of both stores that sends a request, called one after the
\* other from the idle console with a source and a table selected: the first
\* source of the catalog is deleted, listed and selected, a source b is
\* registered, the first table of the list is selected.  A request is
\* answered by the server or fails with a message.
NextRequests ==
    \/ Idle /\ FetchTypesCall
    \/ Idle /\ FetchDatasourcesCall
    \/ Idle /\ CreateDatasourceCall("b")
    \/ Idle /\ datasources # <<>> /\ DeleteDatasourceCall(datasources[1].name)
    \/ Idle /\ datasources # <<>> /\ FetchTablesCall(datasources[1].name)
    \/ Idle /\ SelectDatasource(1)
    \/ Idle /\ tables # <<>> /\ SelectTableCall(tables[1])
    \/ Idle /\ CheckStatusCall
    \/ Idle /\ ExecuteQueryCall("q1")
    \/ Idle /\ CreateMaterializedTableCall
    \/ Idle /\ FetchModelsCall
    \/ Idle /\ FetchJobsCall
    \/ Idle /\ FetchKnowledgeBasesCall
    \/ \E r \in reqs : r.kind \notin {"query", "models", "jobs", "knowledgeBases",
                                       "status", "materialize"} /\ ServerHandle(r)
    \/ \E r \in reqs : QueryServerHandle(r)
    \/ \E r \in { x \in Outcomes : x.st = "ok" \/ x.fail.message # "" } :
          \/ FetchTypesDone(r)
          \/ FetchDatasourcesDone(r)
          \/ CreateDatasourceDone(r)
          \/ DeleteDatasourceDone(r)
          \/ FetchTablesDone(r)
          \/ SelectTableResponse(r)
          \/ CheckStatusDone(r)
          \/ ExecuteQueryDone(r)
          \/ CreateMaterializedTableDone(r)
          \/ FetchModelsDone(r)
          \/ FetchJobsDone(r)
          \/ FetchKnowledgeBasesDone(r)

SpecRequests == InitSelected /\ [][NextRequests]_vars

\* selectTable called with and without a selected source: sources are selected
\* and deleted one call after the other, selectTable is called at any time, for
\* a table of the list when there is one and for a table shown earlier when no
\* source is selected (the call noted in obs.set).
NextSelectTable ==
    \/ \E i \in 1..Len(datasources) : Idle /\ SelectDatasource(i)
    \/ \E n \in NamesOf(datasources) : Idle /\ DeleteDatasourceCall(n)
    \/ SelectTableReturn("t1") /\ Observed("selectTable", "t1")
    \/ \E t \in ListedTables : SelectTableCall(t)
    \/ \E r \in reqs : ServerHandle(r)
    \/ \E r \in Outcomes :
          \/ DeleteDatasourceDone(r)
          \/ FetchTablesDone(r)
          \/ SelectTableResponse(r)

SpecSelectTable == InitLoaded /\ [][NextSelectTable]_vars

\* Connectivity: checkStatus next to executeQuery, the operation that writes
\* the error field and loading of the same store.
NextStatus ==
    \/ CheckStatusCall
    \/ ExecuteQueryCall("q1")
    \/ \E r \in reqs : QueryServerHandle(r)
    \/ \E r \in Outcomes :
          \/ CheckStatusDone(r)
          \/ ExecuteQueryDone(r)

SpecStatus == InitEmpty /\ [][NextStatus]_vars

\* The object browser: refresh and the three catalog fetches it joins.
NextRefresh ==
    \/ Refresh
    \/ \E r \in reqs : QueryServerHandle(r)
    \/ \E r \in Outcomes :
          \/ FetchModelsDone(r)
          \/ FetchJobsDone(r)
          \/ FetchKnowledgeBasesDone(r)

SpecRefresh == InitEmpty /\ [][NextRefresh]_vars

\* A view is mounted and its onMounted runs refresh (part_002 29-31,
\* MindsDBObjects.vue 25-27), as the first call of the session: the dashboard
\* with its five fetches or the object browser with its three.  The requests
\* are handled and return in any order, each with any outcome.
NextMounted ==
    \/ nextId = 1 /\ DashboardRefresh
    \/ nextId = 1 /\ Refresh
    \/ \E r \in reqs : r.kind = "list" /\ ServerHandle(r)
    \/ \E r \in reqs : QueryServerHandle(r)
    \/ \E r \in Outcomes :
          \/ CheckStatusDone(r)
          \/ FetchDatasourcesDone(r)
          \/ FetchModelsDone(r)
          \/ FetchJobsDone(r)
          \/ FetchKnowledgeBasesDone(r)

SpecMounted == Init /\ [][NextMounted]_vars

\* The data-source view with the catalog loaded: its onMounted fetches the
\* types (part_003 38-43), the modal is opened, closed and filled in at any
\* time, also while a submission is in flight, and the timer of a success
\* fires at any time.
NextModal ==
    \/ nextId = 1 /\ FetchTypesCall
    \/ OpenAddModal
    \/ \E type \in Elements(datasourceTypes) : SelectType(type)
    \/ BackToTypes
    \/ CloseModal
    \/ \E n \in {"", "a", "b"} : SetConnectionName(n)
    \/ \E name \in {"host", "port"} : SetField(name, "db.local")
    \/ CreateConnectionCall
    \/ \E r \in reqs : r.kind \in {"types", "create"} /\ ServerHandle(r)
    \/ \E r \in Outcomes : FetchTypesDone(r) \/ CreateConnectionDone(r)
    \/ CloseModalTimer

SpecModal == InitLoaded /\ [][NextModal]_vars

\* The table list of the datasource store, shared by two views: the
\* data-source view selects a source (part_003 100-102) and the
\* materialized-table builder calls fetchTables for the database chosen in its
\* form (MaterializedTables.vue 54-63), one call after the other, never two
\* requests at a time.
NextSharedTables ==
    \/ \E i \in 1..Len(datasources) : Idle /\ SelectDatasource(i)
    \/ \E n \in NamesOf(datasources) : Idle /\ FetchTablesCall(n)
    \/ \E r \in reqs : r.kind = "tables" /\ ServerHandle(r)
    \/ \E r \in Outcomes : FetchTablesDone(r)

SpecSharedTables == InitSelected /\ [][NextSharedTables]_vars

\* The timer of a success fires eventually (setTimeout, part_003 88-90).
SpecModalFair == SpecModal /\ WF_vars(CloseModalTimer)

----------------------------------------------------------------------------
\* Properties of the datasource store.

\* C1: after the selected source was deleted, no state holds a schema or a
\* sample while no source is selected.
NoOrphanedTableState ==
    selectedDatasource = Null => tableSchema = Null /\ tableData = Null

\* The request of x left the network in this step.
Gone(x) == \A y \in reqs' : y.call # x.call \/ y.kind # x.kind

SelectTableStep ==
    /\ (tableSchema' # tableSchema \/ tableData' # tableData) =>
          \/ tableSchema' = Null /\ tableData' = Null
          \/ \E r \in reqs :
                /\ r.kind \in {"schema", "sample"} /\ r.st = "ok" /\ Gone(r)
                /\ tableSchema' = <<ServerSchema(r.ds, r.table, r.call)>>
                /\ tableData' = <<ServerSample(r.ds, r.table, 10, r.call)>>
                /\ tableSchema' # tableSchema
                /\ tableData' # tableData
    /\ \A r \in reqs :
          r.kind \in {"schema", "sample"} /\ r.st # "ok" /\ Gone(r)
             => UNCHANGED <<tableSchema, tableData>>

\* C2: every step that changes tableSchema or tableData either clears both or
\* replaces both by the schema and the sample answered to one selectTable call,
\* and a step in which a request of selectTable fails changes neither.
SelectTableAllOrNothing == [][SelectTableStep]_vars

\* C2 witness: a selectTable call has replaced both.
BothReplaced ==
    /\ tableSchema # Null /\ tableData # Null
    /\ tableSchema[1].call = tableData[1].call
    /\ reqs = {}

\* C3: the schema and the sample held were fetched from the selected source.
TableStateOfSelectedSource ==
    selectedDatasource # Null =>
        /\ tableSchema # Null => tableSchema[1].src = selectedDatasource[1].name
        /\ tableData # Null => tableData[1].src = selectedDatasource[1].name

Occurrences(n) ==
    Cardinality({ i \in 1..Len(datasources) : datasources[i].name = n })

\* C9: after a createDatasource that succeeded with nothing else in flight and
\* a fetchDatasources called after it that succeeded, the catalog holds the
\* created name exactly once.
CreateThenFetchHoldsNameOnce ==
    obs.cf.stage = "done" => Occurrences(obs.cf.name) = 1

\* C9 witness: such a createDatasource and fetchDatasources have completed.
CreateThenFetchDone == obs.cf.stage = "done" /\ reqs = {}

\* C10: no two entries of the catalog have the same name.
CatalogNamesUnique ==
    \A n \in Names : Occurrences(n) <= 1

\* A call that sets loading is in flight: its continuation has not run.
CallInFlight ==
    \/ selCalls # {}
    \/ \E r \in reqs : r.kind \in {"list", "create", "delete", "tables"}

\* C11: loading is true exactly in the states in which a fetchDatasources,
\* createDatasource, deleteDatasource, fetchTables or selectTable call is in
\* flight.
LoadingIffCallInFlight == dsLoading = CallInFlight

\* C12: after an operation of the datasource store that ran alone and
\* succeeded, the error field is null.
ErrorNullAfterSuccess == obs.solo.stage = "succeeded" => dsError = NoStr

\* C17: a step in which the request of fetchTypes fails leaves the error set
\* and the type catalog empty.
FetchTypesFailureStep ==
    \A r \in reqs :
        (r.kind = "types" /\ r.st # "ok" /\ Gone(r)) =>
            /\ dsError' \notin {NoStr, ""}
            /\ datasourceTypes' = <<>>

TypesEmptyAfterFailure == [][FetchTypesFailureStep]_vars

MutationFailureStep ==
    \A r \in reqs :
        (r.kind \in {"list", "create", "delete"} /\ r.st # "ok" /\ Gone(r)) =>
            /\ UNCHANGED <<datasources, selectedDatasource, tables, selectedTable,
                           tableSchema, tableData>>
            /\ dsError' \notin {NoStr, ""}
            /\ obs'.ret.call = r.call /\ obs'.ret.kind = r.kind
            /\ obs'.ret.value = IF r.kind = "list" THEN "undefined" ELSE "false"

\* C14: a step in which the request of fetchDatasources, createDatasource or
\* deleteDatasource fails changes none of the catalog, the selected source, the
\* table list, the selected table, the schema and the sample, sets the error
\* to a message, and the call returns (false for create and delete).
FailedMutationLeavesData == [][MutationFailureStep]_vars

\* C14 witness: deleteDatasource has returned false with a source and a table
\* selected and their schema and sample held.
FailedDeleteKeptSelection ==
    /\ obs.ret.kind = "delete" /\ obs.ret.value = "false"
    /\ dsError = "detail"
    /\ datasources # <<>> /\ selectedDatasource # Null /\ tables # <<>>
    /\ selectedTable # NoStr /\ tableSchema # Null /\ tableData # Null

CreateSuccessStep ==
    \A r \in reqs :
        (r.kind = "create" /\ r.st = "ok" /\ Gone(r)) =>
            /\ Len(datasources') = Len(datasources) + 1
            /\ \A i \in 1..Len(datasources) : datasources'[i] = datasources[i]
            /\ datasources'[Len(datasources')] = r.resp[1]
            /\ obs'.ret.call = r.call /\ obs'.ret.value = "true"

\* C15: a step in which createDatasource succeeds appends the entity the
\* server returned to the catalog as it is then, whether or not an entry of
\* that name is there, and the call returns true.
CreateAppendsEntity == [][CreateSuccessStep]_vars

\* C15 witness: createDatasource has returned true and the catalog holds the
\* created name twice.
CreatedNameTwice ==
    /\ obs.ret.kind = "create" /\ obs.ret.value = "true"
    /\ \E n \in Names : Occurrences(n) = 2

FetchTablesStep ==
    /\ \A r \in reqs :
          (r.kind = "tables" /\ Gone(r)) =>
              /\ IF r.st = "ok"
                   THEN tables' = r.resp
                   ELSE tables' = <<>> /\ dsError' \notin {NoStr, ""}
              /\ UNCHANGED <<selectedDatasource, selectedTable, tableSchema,
                             tableData, datasources>>
    /\ (nextId' # nextId /\ obs'.solo.kind = "tables") =>
          /\ \E r \in reqs' \ reqs : r.kind = "tables" /\ r.call = nextId
          /\ UNCHANGED <<selectedDatasource, selectedTable, tableSchema,
                         tableData, datasources, tables>>

\* C16: fetchTables replaces the table list by the answer to its request when
\* the request succeeds, empties it and sets the error when the request fails,
\* and in no step changes the selected source, the selected table, the schema,
\* the sample or the catalog.
FetchTablesReplacesList == [][FetchTablesStep]_vars

\* C16 witness: a fetchTables has just returned with nothing else in flight, its
\* request failed, and the table list is empty while the selection, the schema
\* and the sample are kept.
TablesEmptiedSelectionKept ==
    /\ obs.ret.kind = "tables" /\ Idle
    /\ dsError = "Failed to fetch tables" /\ tables = <<>>
    /\ selectedDatasource # Null /\ selectedTable # NoStr
    /\ tableSchema # Null /\ tableData # Null

SelectTableRequestsStep ==
    /\ (obs'.set # obs.set /\ obs'.set.op = "selectTable") =>
          /\ selectedDatasource = Null
          /\ UNCHANGED <<reqs, selCalls, nextId>>
          /\ UNCHANGED <<selectedTable, dsLoading, dsError, tableSchema, tableData>>
    /\ (nextId' # nextId /\ obs'.solo.kind = "selectTable") =>
          LET sent == reqs' \ reqs
          IN  /\ selectedDatasource # Null
              /\ reqs \subseteq reqs'
              /\ Cardinality(sent) = 2
              /\ \E x, y \in sent :
                    /\ x.kind = "schema" /\ y.kind = "sample" /\ y.limit = 10
                    /\ x.st = "sent" /\ y.st = "sent"
                    /\ x.ds = selectedDatasource[1].name
                    /\ y.ds = selectedDatasource[1].name
                    /\ x.table = selectedTable' /\ y.table = selectedTable'

\* C21: a selectTable call made while no source is selected sends no request
\* and leaves selectedTable, loading, error, the schema and the sample as they
\* are; a call made while a source is selected sends exactly two requests, one
\* for the schema and one for a sample of 10 rows, both for the source
\* selected at the call and for the table given.
SelectTableSendsTwoOrNone == [][SelectTableRequestsStep]_vars

\* C21 witness: selectTable has returned early while a schema was held and no
\* source selected, after the selected source was deleted with a selectTable
\* call made for it.
ReturnedEarlyAfterCall ==
    /\ obs.set.op = "selectTable" /\ selectedDatasource = Null
    /\ tableSchema # Null /\ tableData # Null

----------------------------------------------------------------------------
\* Properties of the query store.

\* C4: the history has one entry for every executeQuery call that completed.
OneEntryPerExecution == Len(queryHistory) = obs.execDone

Min(a, b) == IF a < b THEN a ELSE b

\* C5: lastQueries holds the min(N, 10) most recent entries of the history,
\* most recent first.
LastQueriesRecentFirst ==
    LET N == Len(queryHistory)
    IN  /\ Len(lastQueries) = Min(N, 10)
        /\ \A i \in 0..(Len(lastQueries) - 1) : lastQueries[i + 1] = queryHistory[N - i]

\* C5 witness: the history holds more entries than lastQueries shows.
HistoryLongerThanWindow == Len(queryHistory) = 12

ExecuteErrorStep ==
    \A r \in reqs :
        (r.kind = "query" /\ r.st = "ok" /\ r.resp[1].type = "error" /\ Gone(r)) =>
            /\ queryResult' = r.resp
            /\ obs'.lastExec.returned = r.resp
            /\ queryResult'[1].type = "error"
            /\ queryResult'[1].columns = <<>>
            /\ queryResult'[1].data = <<>>
            /\ queryResult'[1].row_count = 0
            /\ ~Falsy(queryResult'[1].error)
            /\ qError' = queryResult'[1].error

\* C6: when executeQuery is answered with a result of kind error, that result
\* is stored and returned, it has no columns, no rows, row count 0 and a
\* non-empty message, and the error field is that message.
DomainErrorStored == [][ExecuteErrorStep]_vars

\* C6 witness: an error result is stored with its message in the error field.
DomainErrorShown ==
    /\ queryResult # Null /\ queryResult[1].type = "error"
    /\ obs.lastExec.outcome.st = "ok"
    /\ obs.lastExec.returned = queryResult
    /\ qError = "syntax error"

ExecuteFailureStep ==
    \A r \in reqs :
        (r.kind = "query" /\ r.st # "ok" /\ Gone(r)) =>
            LET f == obs'.lastExec.outcome.fail
                text == IF f.detail \notin {NoStr, ""} THEN f.detail
                        ELSE IF f.message \notin {NoStr, ""} THEN f.message
                        ELSE "Failed to execute query"
            IN  /\ obs'.lastExec.call = r.call
                /\ obs'.lastExec.outcome.st = "fail"
                /\ obs'.lastExec.returned = queryResult'
                /\ queryResult' = << [type |-> "error", columns |-> <<>>,
                                      data |-> <<>>, row_count |-> 0,
                                      error |-> text] >>
                /\ qError' = text
                /\ qLoading' = FALSE

\* C7: when the request of executeQuery fails, executeQuery returns and stores
\* a result of kind error with no columns, no rows, row count 0 and the
\* message of the error field (the detail, else the failure's message, else
\* "Failed to execute query"), and loading is false.
TransportFailureSynthesized == [][ExecuteFailureStep]_vars

\* C7 witness: a synthesized result is stored after a failure without message.
SynthesizedShown ==
    /\ obs.lastExec.outcome.st = "fail"
    /\ obs.lastExec.returned = queryResult
    /\ queryResult # Null /\ queryResult[1].error = "Failed to execute query"
    /\ qError = "Failed to execute query"
    /\ ~qLoading

CatalogOf(kind) ==
    CASE kind = "models" -> models
      [] kind = "jobs" -> jobs
      [] kind = "knowledgeBases" -> knowledgeBases

FallbackOf(kind) ==
    CASE kind = "models" -> "Failed to fetch models"
      [] kind = "jobs" -> "Failed to fetch jobs"
      [] kind = "knowledgeBases" -> "Failed to fetch knowledge bases"

\* A refresh has returned with exactly one of its three fetches failed.
OneFetchFailed ==
    /\ obs.round.call # 0 /\ ~refreshing
    /\ Cardinality(obs.round.got) = 3
    /\ Cardinality({ r \in obs.round.got : r.st = "fail" }) = 1

\* C8: after a refresh in which exactly one of the three fetches failed, the
\* two other catalogs are the answers to their requests, the third is what it
\* was when refresh was called, and the error field holds the failure's message.
OneFailureLeavesOthers ==
    OneFetchFailed =>
        \A r \in obs.round.got :
            IF r.st = "ok"
              THEN CatalogOf(r.kind) = r.resp
              ELSE /\ CatalogOf(r.kind) = obs.round.start[r.kind]
                   /\ qError = IF r.fail.message \in {NoStr, ""}
                                 THEN FallbackOf(r.kind) ELSE r.fail.message

\* C8 witness: one fetch failed and the catalog it left alone is not empty.
OneFailedKeptCatalog ==
    /\ OneFetchFailed
    /\ \E r \in obs.round.got : r.st = "fail" /\ CatalogOf(r.kind) # <<>>

\* The status is null or the record x says.
Connected(x) == IF x = Null THEN FALSE ELSE x[1].connected

CheckStatusStep ==
    /\ \A r \in reqs :
          (r.kind = "status" /\ Gone(r)) =>
              /\ obs'.ret.call = r.call /\ obs'.ret.value = "undefined"
              /\ IF r.st = "ok"
                   THEN status' = r.resp
                   ELSE /\ status' # Null
                        /\ status'[1].connected = FALSE
                        /\ status'[1].error = obs'.ret.fail.message
              /\ UNCHANGED <<qError, qLoading>>
    /\ (\E r \in reqs' \ reqs : r.kind = "status" /\ r.st = "sent") =>
          UNCHANGED <<status, qError, qLoading>>
    /\ isConnected' = Connected(status')

\* C18: checkStatus returns in every case; it stores the server's response
\* when its request succeeds and a record with connected = false and the
\* failure's message when it fails; isConnected is status.connected, false
\* while status is null; no step of checkStatus changes error or loading.
CheckStatusStoresStatus == [][CheckStatusStep]_vars

\* C18 witness: checkStatus has failed while an executeQuery is in flight, and
\* the status stored is disconnected with the failure's message.
DisconnectedAfterFailure ==
    /\ obs.ret.kind = "status" /\ obs.ret.fail.message = "Network Error"
    /\ status # Null /\ status[1].error = "Network Error" /\ ~isConnected
    /\ qLoading

IsPrefix(a, b) == Len(a) <= Len(b) /\ \A i \in 1..Len(a) : a[i] = b[i]

\* C19: in every step the history before the step is a prefix of the history
\* after it.
HistoryAppendOnly == [][IsPrefix(queryHistory, queryHistory')]_vars

\* C19 witness: two entries are in the history after three executeQuery calls,
\* one of which failed, the result was cleared and another text restored.
HistoryKeptThroughSession ==
    /\ Len(queryHistory) = 2 /\ obs.execDone = 3
    /\ queryResult = Null /\ currentQuery = "q2"

----------------------------------------------------------------------------
\* Properties of the error fields.

\* A step of a synchronous setter: no request is sent and none is answered.
SetterStep == reqs' = reqs /\ nextId' = nextId

ForeignErrorStep ==
    /\ (dsError = "Failed to fetch data source types" /\ dsError' = NoStr) => SetterStep
    /\ (qError = "Failed to fetch models" /\ qError' = NoStr) => SetterStep

Resets(kinds) ==
    \E r \in reqs' \ reqs : r.call = nextId /\ r.st = "sent" /\ r.kind \in kinds

ErrorResetStep ==
    /\ (dsError # NoStr /\ dsError' = NoStr) =>
          \/ SetterStep /\ UNCHANGED <<qVars, datasources, datasourceTypes>>
          \/ Resets({"list", "create", "delete", "tables", "schema", "sample"})
    /\ (qError # NoStr /\ qError' = NoStr) =>
          \/ SetterStep /\ UNCHANGED <<dsVars, queryHistory, models, qLoading>>
          \/ Resets({"query", "materialize"})

ErrorOfStore(kind) ==
    IF kind \in {"types", "list", "create", "delete", "tables", "schema", "sample",
                 "columns"}
      THEN dsError ELSE qError

DetailSurfacedStep ==
    \A r \in reqs :
        (r.st = "fail" /\ ~Falsy(r.fail.detail) /\ Gone(r) /\ r.kind # "status") =>
            ErrorOfStore(r.kind)' = r.fail.detail

\* C22: in the step in which a response that failed with a detail is handled,
\* the error field of the store that sent the request becomes that detail.
DetailSurfaced == [][DetailSurfacedStep]_vars

FailureRecordedStep ==
    \A r \in reqs :
        (r.st # "ok" /\ Gone(r)) =>
            IF r.kind = "status"
              THEN status' # Null /\ status'[1].error # NoStr
              ELSE ~Falsy(ErrorOfStore(r.kind)')

\* C23: in the step in which a request fails, a message is in the error field
\* of a store (in status.error for checkStatus).
FailureRecorded == [][FailureRecordedStep]_vars

SetterFrameStep ==
    obs'.set # obs.set =>
        /\ UNCHANGED <<reqs, selCalls, srvSources, nextId, refreshing>>
        /\ CASE obs'.set.op = "clearError" /\ obs'.set.arg = "datasources" ->
                  /\ dsError' = NoStr
                  /\ UNCHANGED <<datasources, datasourceTypes, selectedDatasource,
                                 tables, selectedTable, tableSchema, tableData,
                                 dsLoading, qVars>>
             [] obs'.set.op = "clearError" /\ obs'.set.arg = "query" ->
                  /\ qError' = NoStr
                  /\ UNCHANGED <<currentQuery, queryResult, queryHistory, models,
                                 jobs, knowledgeBases, status, qLoading, dsVars>>
             [] obs'.set.op = "clearResult" ->
                  /\ queryResult' = Null /\ qError' = NoStr
                  /\ UNCHANGED <<currentQuery, queryHistory, models, jobs,
                                 knowledgeBases, status, qLoading, dsVars>>
             [] obs'.set.op = "setQuery" ->
                  /\ currentQuery' = obs'.set.arg
                  /\ UNCHANGED <<queryResult, queryHistory, models, jobs,
                                 knowledgeBases, status, qLoading, qError, dsVars>>

\* C20: a step of clearError changes only the error of its store, to null; a
\* step of clearResult only queryResult and error, to null; a step of setQuery
\* only currentQuery, to the text given; none sends a request.
SettersChangeOwnFields == [][SetterFrameStep]_vars

\* C20 witness: clearResult was called while a query was in flight, with an
\* entry in the history and a source selected; the result is null and the
\* history, loading, the catalog and the selection are as they were.
ResultClearedWhileLoading ==
    /\ obs.set.op = "clearResult"
    /\ queryResult = Null /\ qError = NoStr
    /\ queryHistory # <<>> /\ qLoading
    /\ datasources # <<>> /\ selectedDatasource # Null /\ tableSchema # Null

\* C24: an invocation of an action sends a fixed number of requests, whatever
\* their outcome: the step of a call sends two requests when it is
\* selectTable (one for the schema, one for the sample) and one request when
\* it is any other action, all under the number of the call; no other step
\* sends a request, so the delivery of a failure sends nothing again.
SentIn == { x \in reqs' \ reqs : x.st = "sent" }

RequestCountStep ==
    /\ nextId' # nextId =>
          /\ nextId' = nextId + 1
          /\ reqs \subseteq reqs'
          /\ \A x \in SentIn : x.call = nextId
          /\ IF \E x \in SentIn : x.kind \in {"schema", "sample"}
               THEN /\ Cardinality(SentIn) = 2
                    /\ { x.kind : x \in SentIn } = {"schema", "sample"}
               ELSE Cardinality(SentIn) = 1
    /\ nextId' = nextId => SentIn = {}
    /\ \A x \in reqs : (x.st = "fail" \/ Gone(x)) =>
          \A y \in reqs' : y.kind = x.kind /\ y.st = "sent" => y.call > x.call

FixedRequestCount == [][RequestCountStep]_vars

\* Three calls were made, one failed in each store (one on the network, one
\* rejected by the server), and nothing is in flight.
FailedAndNotSentAgain ==
    /\ nextId = 4 /\ reqs = {}
    /\ qError = "Network Error" /\ dsError \notin {NoStr, "Network Error"}

\* C25: the fetches of a refresh are joined.  Every fetch of the round that
\* succeeds stores its answer in its own slice, whatever the others do, and
\* the flag of the view is true exactly while a fetch of the round has not
\* returned: it is false once all five (dashboard) or all three (object
\* browser) have.
SliceStoredStep(x) ==
    CASE x.kind = "status" -> status' = x.resp
      [] x.kind = "list" -> datasources' = x.resp
      [] x.kind = "models" -> models' = x.resp
      [] x.kind = "jobs" -> jobs' = x.resp
      [] x.kind = "knowledgeBases" -> knowledgeBases' = x.resp

RefreshRoundStep ==
    /\ \A x \in reqs : (x.joined /\ x.st = "ok" /\ Gone(x)) => SliceStoredStep(x)
    /\ refreshing' <=> (\E x \in reqs' : x.joined)
    /\ (refreshing /\ ~refreshing') =>
          Cardinality(obs'.round.got) = IF "status" \in { x.kind : x \in obs'.round.got }
                                          THEN 5 ELSE 3

RefreshJoinsItsFetches == [][RefreshRoundStep]_vars

\* The round of the dashboard is over: the status and the catalog of sources
\* were stored although the fetch of the models failed.
DashboardRoundOver ==
    /\ obs.round.call # 0 /\ ~refreshing /\ Cardinality(obs.round.got) = 5
    /\ status # Null /\ status[1].connected /\ datasources # <<>>
    /\ \E x \in obs.round.got : x.kind = "models" /\ x.st = "fail"
    /\ jobs # <<>> /\ models = <<>>

\* C26: on a complete form (target name, source database and source table all
\* non-empty) the preview is CREATE TABLE mindsdb.<target> AS / SELECT <cols> /
\* FROM <db>.<table>, with <cols> the star for an empty selection and else the
\* selected columns in selection order joined by ", "; then a WHERE line
\* exactly when the predicate is non-empty; then a LIMIT line, only when a
\* limit is given and always when that limit is not 0; then one semicolon.
TemplateLines(f, whereLine, limitLine) ==
    <<"CREATE TABLE mindsdb.", f.tableName, " AS", NL, "SELECT ">>
    \o (IF f.selectedColumns = <<>> THEN <<"*">> ELSE JoinWith(f.selectedColumns, ", "))
    \o <<NL, "FROM ", f.selectedDatabase, ".", f.selectedTable>>
    \o whereLine \o limitLine \o <<";">>

PreviewFollowsTemplate ==
    ~Incomplete(form) =>
        \E whereLine \in {<<>>, <<NL, "WHERE ", form.whereClause>>} :
        \E limitLine \in {<<>>} \cup { <<NL, "LIMIT ", ToString(n)>> : n \in {0, 50} } :
            /\ sqlPreview = TemplateLines(form, whereLine, limitLine)
            /\ whereLine # <<>> <=> form.whereClause # ""
            /\ limitLine # <<>> =>
                  form.limitRows # Null /\ limitLine[3] = ToString(form.limitRows[1])
            /\ (form.limitRows # Null /\ form.limitRows[1] # 0) => limitLine # <<>>
            /\ Cardinality({ i \in 1..Len(sqlPreview) : sqlPreview[i] = ";" }) = 1

\* The preview of the form with two columns, a predicate and a limit.
PreviewWithEveryPart ==
    sqlPreview = <<"CREATE TABLE mindsdb.", "cached", " AS", NL,
                   "SELECT ", "id", ", ", "amount", NL,
                   "FROM ", "a", ".", "t1", NL,
                   "WHERE ", "amount > 100", NL,
                   "LIMIT ", "50", ";">>

\* The parts of a preview: the pieces of the column list (between SELECT and
\* the end of its line), and the line that starts with a keyword.
FirstBreakAfter(text, i) ==
    CHOOSE j \in (i + 1)..Len(text) :
        text[j] = NL /\ \A k \in (i + 1)..(j - 1) : text[k] # NL

PreviewColumns(text) == SubSeq(text, 6, FirstBreakAfter(text, 5) - 1)

KeywordLines(text, keyword) ==
    { i \in 1..(Len(text) - 2) : text[i] = NL /\ text[i + 1] = keyword }

HasLine(text, keyword) == KeywordLines(text, keyword) # {}

LineArgument(text, keyword) == text[(CHOOSE i \in KeywordLines(text, keyword) : TRUE) + 2]

\* C27: in every step in which createTable sends its request, the preview of
\* the form and the body of the request agree part by part: the column list
\* is the star exactly when the request's columns are ['*'] and else the same
\* columns in the same order; there is a WHERE line exactly when the request
\* carries a where_clause, with the same text; there is a LIMIT line exactly
\* when the request carries a limit, with the same number, 0 included.
PreviewAgreesWith(text, data) ==
    /\ PreviewColumns(text) = <<"*">> <=> data.columns = <<"*">>
    /\ PreviewColumns(text) # <<"*">> => PreviewColumns(text) = JoinWith(data.columns, ", ")
    /\ HasLine(text, "WHERE ") <=> data.where_clause # NoStr
    /\ HasLine(text, "WHERE ") => LineArgument(text, "WHERE ") = data.where_clause
    /\ HasLine(text, "LIMIT ") <=> data.limit # Null
    /\ HasLine(text, "LIMIT ") => LineArgument(text, "LIMIT ") = ToString(data.limit[1])

PreviewAgreesStep ==
    \A x \in reqs' \ reqs :
        (x.kind = "materialize" /\ x.st = "sent") => PreviewAgreesWith(sqlPreview, x.data[1])

PreviewMatchesRequest == [][PreviewAgreesStep]_vars

\* C28: the preview is the placeholder exactly when the target name, the
\* source database or the source table is empty; in exactly those form states
\* createTable returns without a request and leaves creating, createSuccess
\* and the error of the query store alone, and in the others it sends its
\* request; the preview has a value (a non-empty text) in every form state.
SomePartEmpty ==
    form.tableName = "" \/ form.selectedDatabase = "" \/ form.selectedTable = ""

PlaceholderWhenPartEmpty ==
    /\ sqlPreview = Placeholder <=> SomePartEmpty
    /\ Len(sqlPreview) > 0 /\ \A i \in 1..Len(sqlPreview) : sqlPreview[i] \in STRING

CreateTableGuardStep ==
    /\ (obs'.set # obs.set /\ obs'.set.op = "createTable") =>
          /\ SomePartEmpty
          /\ UNCHANGED <<reqs, nextId, qError>>
          /\ form'.creating = form.creating /\ form'.createSuccess = form.createSuccess
    /\ (\E x \in reqs' \ reqs : x.kind = "materialize" /\ x.st = "sent") =>
          ~SomePartEmpty /\ form'.creating

PlaceholderAndGuardAgree == []PlaceholderWhenPartEmpty /\ [][CreateTableGuardStep]_vars

\* createTable returned early on a form that lacks only the source table.
CreateTableReturnedEarly ==
    /\ obs.set.op = "createTable"
    /\ form.tableName # "" /\ form.selectedDatabase # "" /\ form.selectedTable = ""
    /\ sqlPreview = Placeholder /\ reqs = {} /\ ~form.creating

\* The steps of the modal a claim is about: the modal is opened, a submission
\* is sent, a submission fails.
OpenedStep == ~modal.showAddModal /\ modal'.showAddModal

SubmittedIn == { x \in reqs' \ reqs : x.kind = "create" /\ x.st = "sent" }

FailedIn == { x \in reqs : x.kind = "create" /\ x.st # "ok" /\ Gone(x) }

OpensInTypeSelection ==
    OpenedStep =>
        /\ Display(modal') = "type-selection"
        /\ modal'.selectedType = Null /\ modal'.formData = {}
        /\ modal'.connectionName = "" /\ ~modal'.createSuccess

SubmitsFromFieldEntry ==
    \A x \in SubmittedIn :
        /\ Display(modal) = "field-entry"
        /\ modal.selectedType # Null /\ modal.connectionName # ""
        /\ x.data[1] = [name |-> modal.connectionName,
                        engine |-> modal.selectedType[1].type,
                        parameters |-> modal.formData]

\* C29: every open puts the modal in type-selection (no type, empty form and
\* name, success flag false), whatever it was left with; a submission is sent
\* only from field-entry with a type and a non-empty name, and carries them;
\* the failure of a submission takes the modal from submitting back to
\* field-entry: it changes neither the chosen type nor the name nor the field
\* values, it resets creating, and it leaves the success flag false and the
\* error of the datasource store non-null.
FailureKeepsEntryStep ==
    /\ OpensInTypeSelection
    /\ SubmitsFromFieldEntry
    /\ \A x \in FailedIn :
          /\ modal' = [modal EXCEPT !.creating = FALSE]
          /\ modal.creating /\ ~modal'.createSuccess
          /\ dsError' # NoStr
          /\ (modal.showAddModal /\ modal.selectedType # Null) =>
                Display(modal') = "field-entry"

FailureKeepsEntry == [][FailureKeepsEntryStep]_vars

\* A submission for the name of a registered source was rejected: the modal
\* is in field-entry with the name and the error.
RejectedInFieldEntry ==
    /\ Display(modal) = "field-entry" /\ ~modal.creating
    /\ modal.connectionName = "a" /\ modal.formData # {}
    /\ obs.ret.kind = "create" /\ dsError = "detail" /\ reqs = {}

\* C30: the success of a submission sets the success flag, which the modal
\* displays if it is still shown, and schedules closeModal; once the timer has
\* fired, with no action of the user needed, the modal is closed with type,
\* field values, name and success flag reset.
SucceededIn == { x \in reqs : x.kind = "create" /\ x.st = "ok" /\ Gone(x) }

SuccessShownStep ==
    \A x \in SucceededIn :
        /\ modal'.createSuccess /\ ~modal'.creating
        /\ modal.showAddModal => Display(modal') = "success"
        /\ timers' = Append(timers, "closeModal")

ClosedAndReset ==
    /\ Display(modal) = "closed"
    /\ modal.selectedType = Null /\ modal.formData = {}
    /\ modal.connectionName = "" /\ ~modal.createSuccess

SuccessThenClosed ==
    /\ [][SuccessShownStep]_vars
    /\ modal.createSuccess ~> ClosedAndReset
    /\ (timers # <<>>) ~> (timers = <<>> /\ ClosedAndReset)

\* The source b was registered from the modal, and the modal has closed.
ClosedAfterSuccess ==
    /\ obs.ret.kind = "create" /\ obs.ret.value = "true"
    /\ "b" \in NamesOf(datasources)
    /\ ClosedAndReset /\ timers = <<>> /\ reqs = {}

\* C31: no step of the store drops the answer of a table fetch because its
\* source is no longer the selected one: the answer becomes the table list
\* whatever is selected.  So selectDatasource(a) followed by
\* selectDatasource(b), with the answer for b delivered before the answer for
\* a, ends with b selected and the tables of a listed.
StaleTablesStoredStep ==
    \A x \in reqs : (x.kind = "tables" /\ x.st = "ok" /\ Gone(x)) =>
        /\ tables' = x.resp
        /\ UNCHANGED selectedDatasource

StaleTablesStored == [][StaleTablesStoredStep]_vars

\* Two calls were made, b is selected, the call that returned last is the
\* first one, and the tables of a are listed with nothing in flight.
OtherSourcesTablesListed ==
    /\ nextId = 3 /\ reqs = {}
    /\ selectedDatasource = Some(DataSource("b"))
    /\ obs.ret.kind = "tables" /\ obs.ret.call = 1
    /\ tables = ServerTables("a") /\ tables # ServerTables("b")

\* C32: whenever no execution is in flight and an executeQuery has completed
\* since the last clearResult, queryResult is the result (answered or
\* synthesized) of the executeQuery issued last, the one whose text is in
\* currentQuery, also when executions overlapped.
ResultOfLastIssued ==
    ((\A x \in reqs : x.kind # "query") /\ queryResult # Null) =>
        /\ obs.lastExec.call = nextId - 1
        /\ obs.lastExec.outcome.body = currentQuery
        /\ queryResult = obs.lastExec.returned

\* C33: when an executeQuery(text) that ran with nothing overlapping is
\* answered by the server, currentQuery is the text, queryResult is the answer
\* and is what the call returns, the history has grown by one entry with
\* query = text and success = (the kind of the answer is not error), error is
\* non-null exactly when the kind is error, and loading is false.
AnsweredQueryStep ==
    \A x \in reqs : (x.kind = "query" /\ x.st = "ok" /\ Gone(x)) =>
        /\ currentQuery' = x.body
        /\ queryResult' = x.resp
        /\ obs'.lastExec.call = x.call /\ obs'.lastExec.returned = x.resp
        /\ Len(queryHistory') = Len(queryHistory) + 1
        /\ SubSeq(queryHistory', 1, Len(queryHistory)) = queryHistory
        /\ queryHistory'[Len(queryHistory')].query = x.body
        /\ queryHistory'[Len(queryHistory')].success = (x.resp[1].type # "error")
        /\ qError' # NoStr <=> x.resp[1].type = "error"
        /\ ~qLoading'

AnsweredQueryStored == [][AnsweredQueryStep]_vars

\* The second call of the session, an executeQuery, was answered with a
\* table: the text, the result and one successful history entry are stored.
TableAnsweredAfterFailure ==
    /\ reqs = {} /\ nextId = 3 /\ obs.lastExec.call = 2
    /\ queryResult # Null /\ queryResult[1].type = "table"
    /\ currentQuery = "q1" /\ qError = NoStr /\ ~qLoading
    /\ Len(queryHistory) = 1 /\ queryHistory[1].success

\* C34: with calls that never overlap, whenever a source is selected and
\* nothing is in flight, the table list is the list the server returns for the
\* selected source, or empty after a failed fetch; a fetchTables for another
\* name, as the materialized-table builder makes, does not break this.
TablesOfSelectedSource ==
    (Idle /\ selectedDatasource # Null) =>
        tables \in {ServerTables(selectedDatasource[1].name), <<>>}

\* C35: whenever nothing is in flight and selectedTable, tableSchema and
\* tableData are all non-null, the schema and the sample are the server's
\* answers for the table named by selectedTable of the selected source, also
\* after a selectTable that failed and after overlapping selectTable calls
\* answered out of order.
SchemaOfSelectedTable ==
    (Idle /\ selectedTable # NoStr /\ tableSchema # Null /\ tableData # Null) =>
        /\ selectedDatasource # Null
        /\ tableSchema[1].table = selectedTable
        /\ tableSchema[1].src = selectedDatasource[1].name
        /\ tableData[1].table = selectedTable
        /\ tableData[1].src = selectedDatasource[1].name

\* C36: the close scheduled by a successful submission closes the modal only
\* while it shows the success state: a modal that was closed and opened again
\* before the timer fired is neither closed nor reset by that timer.
TimerFiredStep == Len(timers') < Len(timers)

TimerClosesSuccessOnlyStep ==
    (TimerFiredStep /\ modal.showAddModal) => Display(modal) = "success"

TimerClosesSuccessOnly == [][TimerClosesSuccessOnlyStep]_vars

\* The operations of both stores that set loading, called at any time, also
\* while others are unanswered, and the answers to their requests.  A request
\* fails when the server refuses it; the server never refuses the request of
\* the list, which fails when the network does.
AnswerLoading ==
    \/ \E r \in reqs : r.kind \notin {"query", "materialize"} /\ ServerHandle(r)
    \/ \E r \in reqs : QueryServerHandle(r)
    \/ \E r \in { x \in Outcomes : x \in reqs \/ (x.kind = "list" /\ x.fail.message = "Network Error") } :
          \/ FetchDatasourcesDone(r)
          \/ CreateDatasourceDone(r)
          \/ DeleteDatasourceDone(r)
          \/ FetchTablesDone(r)
          \/ SelectTableResponse(r)
          \/ ExecuteQueryDone(r)
          \/ CreateMaterializedTableDone(r)

NextLoading ==
    \/ nextId < MaxCalls /\ FetchDatasourcesCall
    \/ nextId < MaxCalls /\ CreateDatasourceCall("b")
    \/ nextId < MaxCalls /\ datasources # <<>> /\ DeleteDatasourceCall(datasources[1].name)
    \/ nextId < MaxCalls /\ datasources # <<>> /\ FetchTablesCall(datasources[1].name)
    \/ nextId < MaxCalls /\ tables # <<>> /\ SelectTableCall(tables[1])
    \/ nextId < MaxCalls /\ ExecuteQueryCall("q1")
    \/ nextId < MaxCalls /\ CreateMaterializedTableCall
    \/ AnswerLoading

\* Every issued request is eventually answered and its answer delivered.
SpecLoadingFair == InitSelected /\ [][NextLoading]_vars /\ WF_vars(AnswerLoading)

\* C37: the selected columns are always a duplicate-free subset of the columns
\* of the table chosen in the form, and every column a create request carries,
\* the star apart, is a column of the schema of the source table the request
\* names and occurs once, also when a schema request fails or is answered
\* while columns are toggled.
SchemaColumnNames(db, t) ==
    { ServerSchema(db, t, 0).columns[i].name : i \in 1..Len(ServerSchema(db, t, 0).columns) }

DuplicateFree(list) == \A i, j \in 1..Len(list) : list[i] = list[j] => i = j

SelectedColumnsOfTable ==
    /\ DuplicateFree(form.selectedColumns)
    /\ form.selectedTable # "" =>
          Elements(form.selectedColumns)
              \subseteq SchemaColumnNames(form.selectedDatabase, form.selectedTable)

RequestColumnsStep ==
    \A x \in reqs' \ reqs : (x.kind = "materialize" /\ x.st = "sent") =>
        /\ DuplicateFree(x.data[1].columns)
        /\ Elements(x.data[1].columns) \ {"*"}
              \subseteq SchemaColumnNames(x.data[1].source_database, x.data[1].source_table)

RequestColumnsOfTable == []SelectedColumnsOfTable /\ [][RequestColumnsStep]_vars

\* C38: when every issued request is answered, successfully or not, a state
\* follows in which no request is unanswered and neither store is loading:
\* the loading flag of neither store stays set, whatever the operations, their
\* interleaving and their outcomes.
LoadingOrUnanswered == reqs # {} \/ dsLoading \/ qLoading

LoadingSettles == LoadingOrUnanswered ~> ~LoadingOrUnanswered

\* Two operations, one of each store, have failed and neither store is
\* loading.
LoadingResetAfterFailures ==
    /\ reqs = {} /\ nextId = MaxCalls
    /\ dsError # NoStr /\ qError # NoStr
    /\ ~dsLoading /\ ~qLoading

====
